---- MODULE Spec2Model ----
(***************************************************************************)
(* RetailRover: the normalisation / deduplication / recommendation core   *)
(* and the historical ledger, modelled from src/utils/data_processor.py   *)
(* and src/utils/recommendation_engine.py.                                 *)
(*                                                                         *)
(* Product names are sequences of one-character strings, tables           *)
(* (DataFrames) are sequences of rows, a row is a record of its columns   *)
(* plus idx, the row's index label.                                        *)
(***************************************************************************)
EXTENDS Integers, Sequences, FiniteSets, TLC

VARIABLES
    df,                 \* deduplicate_products: the table passed in
    dedup_pc,           \* "ready" before the call, "returned" after it
    clusters,           \* per category, the product_groups the loop built (index labels)
    deduplicated_dfs,   \* the per-category frames collected by the loop
    result,             \* the table deduplicate_products returned
    reco_df,            \* get_top_recommendations: the table passed in
    top_n,              \* get_top_recommendations: its top_n argument
    reco_pc,            \* "ready" before the call, "returned" after it
    top_recommendations,\* the table get_top_recommendations returned
    historical_file,    \* data/historical_products.csv: [exists, rows]
    processed_file,     \* data/processed_products.csv: [exists, rows]
    sample_file,        \* data/sample_products.json: [exists, rows]
    now,                \* datetime.now(), in days
    ticks,              \* how often the clock has advanced
    calls,              \* how many calls have been made on the ledger
    last_call,          \* the last call on the ledger: its arguments and outcome
    cards,              \* the product cards of the page a scraper parses
    products,           \* all_products: the raw records the collectors returned
    norm_pc,            \* "start", "scraped" after scrape_page, "returned" after process_data
    normalized,         \* process_data: its table when it calls deduplicate_products
    processed,          \* the table process_data returned
    historical_data,    \* PricePredictor.historical_data: None or a table [rows |-> ...]
    is_trained,         \* PricePredictor.is_trained
    model_weights,      \* PricePredictor.model_weights: category -> learned factors
    pred_calls,         \* how many calls have been made on the predictor
    last_pred,          \* the last call on the predictor: its arguments and outcome
    trending_df,        \* the table of week-over-week changes last computed
    trend_call,         \* the last trend computation: its inputs and outcome
    is_scraping,        \* st.session_state.is_scraping
    stop_flag,          \* scheduler.stop_flag (a threading.Event)
    schedule_thread,    \* scheduler.schedule_thread: 0 for None, or a thread
    scheduled_task,     \* scheduler.scheduled_task
    schedule_type,      \* the argument of the last schedule_scraping call
    threads,            \* per thread (0 is the script thread): where it is, and
                        \* how its last trigger_data_refresh ended
    writers,            \* per concurrent update_historical_data call: where it
                        \* is, its new_data and the historical_df it has read
    prior_file,         \* the ledger file before the concurrent calls
    scraper,            \* get_page: the class whose get_page runs
    max_retries,        \* get_page: its max_retries argument
    retry_count,        \* get_page: its retry_count
    responses,          \* get_page: what its requests have met, in order
    fetched,            \* get_page: "fetching", or what it returned
    merge_call          \* the last merge_data call: its argument and what it returned

dedup_vars == <<df, dedup_pc, clusters, deduplicated_dfs, result>>

reco_vars == <<reco_df, top_n, reco_pc, top_recommendations>>

ledger_vars ==
    <<historical_file, processed_file, sample_file, now, ticks, calls, last_call>>

norm_vars == <<cards, products, norm_pc, normalized, processed>>

pred_vars == <<historical_data, is_trained, model_weights, pred_calls, last_pred>>

trend_vars == <<trending_df, trend_call>>

\* the state of the dashboard, the scheduler and the collectors
sched_vars ==
    <<is_scraping, stop_flag, schedule_thread, scheduled_task, schedule_type, threads>>

writer_vars == <<writers, prior_file>>

page_vars == <<scraper, max_retries, retry_count, responses, fetched>>

merge_vars == <<merge_call>>

more_vars == <<trend_vars, sched_vars, writer_vars, page_vars, merge_vars>>

vars == <<dedup_vars, reco_vars, ledger_vars, norm_vars, pred_vars, more_vars>>

----------------------------------------------------------------------------
(* Bounds and input pools *)

\* most rows in an input table
MaxRows == 3

\* product names the inputs are drawn from: a chain abc ~ ABCD ~ abcde whose
\* ends are not similar, and a pair abcde / abxde of similarity exactly 80
NamePool ==
    { <<"a","b","c">>,
      <<"A","B","C","D">>,
      <<"a","b","c","d","e">>,
      <<"a","b","x","d","e">> }

\* canonical categories the inputs use, in the (sorted) order groupby yields them
CategoryOrder == <<"food", "snacks">>

Categories == {CategoryOrder[i] : i \in 1..Len(CategoryOrder)}

\* sales_rank values the inputs use
RankPool == {1, 2}

\* largest top_n asked for
MaxTopN == 5

\* names, prices and ratings of the tables given to the recommendation engine
RecoNamePool == { <<"A","B","C","D">>, <<"a","b","x","d","e">> }

PricePool == {100}

RatingPool == {3, 5}

\* most rows the ledger is let grow to
MaxLedger == 3

\* most advances of the clock
MaxTicks == 1

\* most calls of save_data / update_historical_data
MaxCalls == 2

\* the retention window of the ledger, in days
RetentionDays == 90

\* the records of a saved sample
SampleRows == 10

\* how many days before now an old batch is timestamped
OldAge == RetentionDays + 30

\* by how many days the clock advances at once
TickPool == {RetentionDays, RetentionDays + 1}

\* the rows of the batches given to save_data / update_historical_data: none,
\* one, two of different keys, two of the same key
BatchRowsPool ==
    LET jumia == [product_name |-> "milk", source |-> "jumia"]
        konga == [product_name |-> "milk", source |-> "konga"]
    IN  {<<>>, <<jumia>>, <<jumia, konga>>, <<konga, konga>>}

StartDay == OldAge

----------------------------------------------------------------------------
(* Sequence helpers *)

Range(s) == {s[i] : i \in 1..Len(s)}

Max(a, b) == IF a >= b THEN a ELSE b

Min(a, b) == IF a <= b THEN a ELSE b

\* A raw cell is a string [text |-> characters], a number [num |-> value],
\* None, or NaN where the record lacks the column.
None == [none |-> TRUE]

NaN == [nan |-> TRUE]

IsText(cell) == "text" \in DOMAIN cell

\* the sub-table of the rows satisfying Test, in table order
Filter(s, Test(_)) == SelectSeq(s, Test)

----------------------------------------------------------------------------
(* str.lower() and fuzz.ratio(): 100 * 2M / T rounded to an integer, M the  *)
(* number of matched characters, T the total length of both strings.        *)

UpperCaseLetters ==
    <<"A","B","C","D","E","F","G","H","I","J","K","L","M",
      "N","O","P","Q","R","S","T","U","V","W","X","Y","Z">>

LowerCaseLetters ==
    <<"a","b","c","d","e","f","g","h","i","j","k","l","m",
      "n","o","p","q","r","s","t","u","v","w","x","y","z">>

LowerCase ==
    [c \in {UpperCaseLetters[k] : k \in 1..26} |->
        LowerCaseLetters[CHOOSE k \in 1..26 : UpperCaseLetters[k] = c]]

lower(s) ==
    [i \in 1..Len(s) |-> IF s[i] \in DOMAIN LowerCase THEN LowerCase[s[i]] ELSE s[i]]

RECURSIVE Matches(_, _)
\* the number of characters the two strings have in common, in order
Matches(a, b) ==
    IF a = <<>> \/ b = <<>> THEN 0
    ELSE IF Head(a) = Head(b) THEN 1 + Matches(Tail(a), Tail(b))
    ELSE Max(Matches(Tail(a), b), Matches(a, Tail(b)))

\* int(round(num / den)), Python's round: halves go to the even neighbour
intr(num, den) ==
    LET q == num \div den
        r == num % den
    IN  IF 2 * r < den THEN q
        ELSE IF 2 * r > den THEN q + 1
        ELSE IF q % 2 = 0 THEN q ELSE q + 1

fuzz_ratio(s1, s2) ==
    IF Len(s1) = 0 \/ Len(s2) = 0 THEN 0
    ELSE intr(100 * 2 * Matches(s1, s2), Len(s1) + Len(s2))

----------------------------------------------------------------------------
(* The parts a specification leaves idle *)

DedupIdle ==
    /\ df = <<>>
    /\ dedup_pc = "idle"
    /\ clusters = <<>>
    /\ deduplicated_dfs = <<>>
    /\ result = <<>>

RecoIdle ==
    /\ reco_df = <<>>
    /\ top_n = 0
    /\ reco_pc = "idle"
    /\ top_recommendations = <<>>

NormIdle ==
    /\ cards = <<>>
    /\ products = <<>>
    /\ norm_pc = "idle"
    /\ normalized = <<>>
    /\ processed = <<>>

PredIdle ==
    /\ historical_data = None
    /\ is_trained = FALSE
    /\ model_weights = <<>>
    /\ pred_calls = 0
    /\ last_pred = [op |-> "idle"]

NoFile == [exists |-> FALSE, rows |-> <<>>]

LedgerIdle ==
    /\ historical_file = NoFile
    /\ processed_file = NoFile
    /\ sample_file = NoFile
    /\ now = 0
    /\ ticks = 0
    /\ calls = 0
    /\ last_call = [op |-> "idle"]

TrendIdle ==
    /\ trending_df = <<>>
    /\ trend_call = [op |-> "idle"]

\* most scheduling threads started
MaxThreads == 2

Threads == 0..MaxThreads

SchedIdle ==
    /\ is_scraping = FALSE
    /\ stop_flag = FALSE
    /\ schedule_thread = 0
    /\ scheduled_task = "None"
    /\ schedule_type = ""
    /\ threads = [t \in Threads |->
                    [pc |-> IF t = 0 THEN "idle" ELSE "unborn", outcome |-> ""]]

\* the two runs that call update_historical_data at once
Writers == {1, 2}

WritersIdle ==
    /\ writers = [w \in Writers |-> [pc |-> "idle", new_data |-> <<>>, historical_df |-> <<>>]]
    /\ prior_file = [exists |-> FALSE, rows |-> <<>>]

PageIdle ==
    /\ scraper = "none"
    /\ max_retries = 0
    /\ retry_count = 0
    /\ responses = <<>>
    /\ fetched = "idle"

MergeIdle == merge_call = [op |-> "idle"]

MoreIdle == TrendIdle /\ SchedIdle /\ WritersIdle /\ PageIdle /\ MergeIdle

----------------------------------------------------------------------------
(* DataProcessor.deduplicate_products *)

\* groupby('category'): the rows of one category, in table order
CategoryGroup(table, category) ==
    LET InCategory(row) == row.category = category
    IN  Filter(table, InCategory)

\* faulty variant of SimilarToSeed: no processed_indices test in the inner loop
SimilarToSeedIgnoringProcessed(group_df, i, processed_indices) ==
    LET name1 == lower(group_df[i].product_name)
        Joins(j) ==
            /\ j # i
            /\ fuzz_ratio(name1, lower(group_df[j].product_name)) > 80
    IN  SelectSeq([j \in 1..Len(group_df) |-> j], Joins)

\* faulty variant of SimilarToSeed: a threshold of 90
SimilarToSeedAbove90(group_df, i, processed_indices) ==
    LET name1 == lower(group_df[i].product_name)
        Joins(j) ==
            /\ j \notin processed_indices
            /\ j # i
            /\ fuzz_ratio(name1, lower(group_df[j].product_name)) > 90
    IN  SelectSeq([j \in 1..Len(group_df) |-> j], Joins)

\* the inner loop: the positions of group_df that join the group seeded at i
SimilarToSeed(group_df, i, processed_indices) ==
    LET name1 == lower(group_df[i].product_name)
        Joins(j) ==
            /\ j \notin processed_indices
            /\ j # i
            /\ fuzz_ratio(name1, lower(group_df[j].product_name)) > 80
    IN  SelectSeq([j \in 1..Len(group_df) |-> j], Joins)

RECURSIVE ProductGroupsFrom(_, _, _)
\* the outer loop from position i on: the groups, each a sequence of positions
ProductGroupsFrom(group_df, i, processed_indices) ==
    IF i > Len(group_df) THEN <<>>
    ELSE IF i \in processed_indices
    THEN ProductGroupsFrom(group_df, i + 1, processed_indices)
    ELSE LET current_group == <<i>> \o SimilarToSeed(group_df, i, processed_indices \cup {i})
         IN  <<current_group>> \o
             ProductGroupsFrom(group_df, i + 1, processed_indices \cup Range(current_group))

product_groups(group_df) == ProductGroupsFrom(group_df, 1, {})

\* the groups as the code holds them: lists of index labels
Labels(group_df, groups) ==
    [k \in 1..Len(groups) |-> [m \in 1..Len(groups[k]) |-> group_df[groups[k][m]].idx]]

\* faulty variant of Representatives: the sort ascending
LowestRanked(group_df, group) ==
    {group_df[i] : i \in {k \in Range(group) :
        \A m \in Range(group) : group_df[k].sales_rank <= group_df[m].sales_rank}}

\* faulty variant of Representatives: the compared (lower-cased) name is kept
LowerCasedRepresentatives(group_df, group) ==
    {[group_df[i] EXCEPT !.product_name = lower(@)] : i \in {k \in Range(group) :
        \A m \in Range(group) : group_df[k].sales_rank >= group_df[m].sales_rank}}

\* sort_values('sales_rank', ascending=False).iloc[0]: a row of the group with
\* the highest sales_rank (which one of several tied rows is the sort's choice)
Representatives(group_df, group) ==
    {group_df[i] : i \in {k \in Range(group) :
        \A m \in Range(group) : group_df[k].sales_rank >= group_df[m].sales_rank}}

RECURSIVE DeduplicatedRows(_, _, _)
\* the set of possible deduplicated_rows lists for the groups from k on
DeduplicatedRows(group_df, groups, k) ==
    IF k > Len(groups) THEN {<<>>}
    ELSE LET kept == IF Len(groups[k]) = 1
                     THEN {group_df[groups[k][1]]}
                     ELSE Representatives(group_df, groups[k])
         IN  {<<r>> \o rest : r \in kept, rest \in DeduplicatedRows(group_df, groups, k + 1)}

\* the frames one category can contribute to deduplicated_dfs
DedupCategory(group_df) ==
    IF Len(group_df) <= 1 THEN {group_df}
    ELSE DeduplicatedRows(group_df, product_groups(group_df), 1)

RECURSIVE DedupFrames(_, _)
\* the possible deduplicated_dfs lists for the categories from c on (groupby
\* yields only the categories that have rows)
DedupFrames(table, c) ==
    IF c > Len(CategoryOrder) THEN {<<>>}
    ELSE LET group_df == CategoryGroup(table, CategoryOrder[c])
             rest == DedupFrames(table, c + 1)
         IN  IF Len(group_df) = 0 THEN rest
             ELSE {<<f>> \o r : f \in DedupCategory(group_df), r \in rest}

RECURSIVE Concat(_)
Concat(frames) ==
    IF frames = <<>> THEN <<>> ELSE Head(frames) \o Concat(Tail(frames))

\* pd.concat(..., ignore_index=True): the rows relabelled 0 .. n-1
IgnoreIndex(table) ==
    [i \in 1..Len(table) |-> [table[i] EXCEPT !.idx = i - 1]]

\* product_groups of every category the loop clusters (more than one row)
ClustersOf(table) ==
    [c \in Categories |->
        LET group_df == CategoryGroup(table, c)
        IN  IF Len(group_df) <= 1 THEN <<>>
            ELSE Labels(group_df, product_groups(group_df))]

deduplicate_products ==
    /\ dedup_pc = "ready"
    /\ dedup_pc' = "returned"
    /\ IF Len(df) = 0
       THEN /\ clusters' = [c \in Categories |-> <<>>]
            /\ deduplicated_dfs' = <<>>
            /\ result' = df
       ELSE \E frames \in DedupFrames(df, 1) :
            /\ clusters' = ClustersOf(df)
            /\ deduplicated_dfs' = frames
            /\ result' = IF frames # <<>> THEN IgnoreIndex(Concat(frames)) ELSE df
    /\ UNCHANGED <<df, reco_vars, ledger_vars, norm_vars, pred_vars, more_vars>>

\* the tables process_data hands over: a RangeIndex, columns filled
DedupRows == [product_name : NamePool, category : Categories, sales_rank : RankPool]

RangeIndexed(rows) ==
    [i \in 1..Len(rows) |-> [idx |-> i - 1] @@ rows[i]]

InitDedup ==
    /\ \E n \in 0..MaxRows : \E rows \in [1..n -> DedupRows] : df = RangeIndexed(rows)
    /\ dedup_pc = "ready"
    /\ clusters = [c \in Categories |-> <<>>]
    /\ deduplicated_dfs = <<>>
    /\ result = <<>>
    /\ RecoIdle
    /\ LedgerIdle
    /\ NormIdle
    /\ PredIdle
    /\ MoreIdle

NextDedup == deduplicate_products

SpecDedup == InitDedup /\ [][NextDedup]_vars

----------------------------------------------------------------------------
(* Deduplication: properties *)

\* the row of df with index label l
Row(l) == df[l + 1]

\* the frame deduplicate_products built for category c
FrameOf(c) == CategoryGroup(Concat(deduplicated_dfs), c)

Similarity(r1, r2) == fuzz_ratio(lower(r1.product_name), lower(r2.product_name))

\* C3 as stated: after deduplicate_products no two output records of one
\* category have a name similarity of 80 or more.
C3_NoSimilarOutputPair ==
    dedup_pc = "returned" =>
        \A i, j \in 1..Len(result) :
            (i # j /\ result[i].category = result[j].category)
                => Similarity(result[i], result[j]) < 80

\* C3 amended: every output record has a name similarity of at most 80 to the
\* seed (the first record, in iteration order) of every earlier cluster of
\* its category.
C3_SeedsApartFromLaterClusters ==
    dedup_pc = "returned" =>
        \A c \in Categories :
            \A ka, kb \in 1..Len(clusters[c]) :
                ka < kb => Similarity(Row(clusters[c][ka][1]), FrameOf(c)[kb]) <= 80

\* a category with two clusters, one of them of several records, whose two
\* output records are nevertheless 80 or more similar
C3_Witness ==
    /\ dedup_pc = "returned"
    /\ \E c \in Categories :
        /\ Len(clusters[c]) = 2
        /\ \E k \in 1..2 : Len(clusters[c][k]) >= 2
        /\ Similarity(FrameOf(c)[1], FrameOf(c)[2]) >= 80

\* C4: within each category the clusters partition the records (every index
\* label in exactly one cluster), the output has one record per cluster, taken
\* from that cluster, and a singleton cluster's record passes through unchanged.
C4_ClustersPartitionCategory ==
    dedup_pc = "returned" =>
        \A c \in Categories :
            LET group_df == CategoryGroup(df, c)
                members == Concat(clusters[c])
            IN  IF Len(group_df) <= 1 THEN FrameOf(c) = group_df
                ELSE /\ Len(members) = Len(group_df)
                     /\ Range(members) = {group_df[i].idx : i \in 1..Len(group_df)}
                     /\ Len(FrameOf(c)) = Len(clusters[c])
                     /\ \A k \in 1..Len(clusters[c]) :
                            /\ FrameOf(c)[k].idx \in Range(clusters[c][k])
                            /\ Len(clusters[c][k]) = 1
                                => FrameOf(c)[k] = Row(clusters[c][k][1])

\* a category split into a cluster of several records and a singleton cluster
C4_Witness ==
    /\ dedup_pc = "returned"
    /\ \E c \in Categories : \E k1, k2 \in 1..Len(clusters[c]) :
        /\ Len(clusters[c][k1]) >= 2
        /\ Len(clusters[c][k2]) = 1

\* C5: the record kept for a cluster is one of its records, its sales_rank is
\* greater than or equal to that of every record of the cluster, and no other
\* record of the cluster is in the output.
C5_KeptRecordHasHighestSalesRank ==
    dedup_pc = "returned" =>
        \A c \in Categories : \A k \in 1..Len(clusters[c]) :
            LET kept == FrameOf(c)[k]
                output == Concat(deduplicated_dfs)
            IN  /\ kept.idx \in Range(clusters[c][k])
                /\ kept = Row(kept.idx)
                /\ \A l \in Range(clusters[c][k]) : kept.sales_rank >= Row(l).sales_rank
                /\ \A l \in Range(clusters[c][k]) \ {kept.idx} :
                       \A i \in 1..Len(output) : output[i].idx # l
                /\ Len(result) = Len(output)

\* a cluster whose kept record is not its seed and outranks another member
C5_Witness ==
    /\ dedup_pc = "returned"
    /\ \E c \in Categories : \E k \in 1..Len(clusters[c]) :
        /\ Len(clusters[c][k]) >= 2
        /\ FrameOf(c)[k].idx # clusters[c][k][1]
        /\ \E l \in Range(clusters[c][k]) : Row(l).sales_rank < FrameOf(c)[k].sales_rank

\* C6: deduplicate_products returns no more records than it was given, and
\* every output product_name is the product_name of an input record.
C6_NoMoreRecordsNoNewNames ==
    dedup_pc = "returned" =>
        /\ Len(result) <= Len(df)
        /\ \A i \in 1..Len(result) :
               \E j \in 1..Len(df) : result[i].product_name = df[j].product_name

\* a call that returned fewer records than it was given
C6_Witness ==
    /\ dedup_pc = "returned"
    /\ 0 < Len(result)
    /\ Len(result) < Len(df)

----------------------------------------------------------------------------
(* recommendation_engine.calculate_score, in units of 1 / ScoreUnit *)

ScoreUnit == 100 * 80000

\* 'column' in row and pd.notna(row['column']): a row's record has the fields
\* of its non-missing cells only
NotNa(row, column) == column \in DOMAIN row

\* the phrases calculate_score looks for that occur in str(availability).lower()
AvailabilityPhrases ==
    ("In Stock" :> {"in stock"}) @@
    ("Out of Stock" :> {"out of stock"}) @@
    ("Limited Stock" :> {"limited stock"}) @@
    ("Available - High Stock" :> {"available", "high stock"}) @@
    ("Pre-order" :> {})

Mentions(availability, phrases) == AvailabilityPhrases[availability] \cap phrases # {}

calculate_score(row) ==
    LET rating == IF NotNa(row, "rating") THEN row.rating * 640000 ELSE 0
        popularity ==
            IF NotNa(row, "review_count") THEN Min(row.review_count, 100) * 24000
            ELSE IF NotNa(row, "view_count") THEN Min(row.view_count, 1000) * 2400
            ELSE 1200000
        sites ==
            IF NotNa(row, "site_count") THEN Min(row.site_count, 5) * 480000
            ELSE 800000
        discount ==
            IF NotNa(row, "discount_percentage") /\ row.discount_percentage > 0
            THEN Min(row.discount_percentage, 80) * 10000
            ELSE 0
        score == rating + popularity + sites + discount
        stocked ==
            IF ~NotNa(row, "availability") THEN score
            ELSE IF Mentions(row.availability, {"out of stock", "sold out"})
                 THEN (score * 1) \div 10
            ELSE IF Mentions(row.availability, {"limited stock", "low stock"})
                 THEN (score * 7) \div 10
            ELSE IF Mentions(row.availability, {"in stock", "available"})
                 THEN (score * 13) \div 10
            ELSE score
    IN  IF NotNa(row, "availability")
           /\ Mentions(row.availability, {"high stock", "plenty", "most stock"})
        THEN (stocked * 15) \div 10
        ELSE stocked

----------------------------------------------------------------------------
(* recommendation_engine.get_top_recommendations *)

\* the inner loop of find_duplicates: the positions that join the group of i
SimilarToName(group_df, i, matched) ==
    LET name_i == lower(group_df[i].product_name)
        Joins(j) ==
            /\ j \notin matched
            /\ j # i
            /\ fuzz_ratio(name_i, lower(group_df[j].product_name)) >= 80
    IN  SelectSeq([j \in 1..Len(group_df) |-> j], Joins)

RECURSIVE DuplicateGroupsFrom(_, _, _)
\* the outer loop of find_duplicates from position i on
DuplicateGroupsFrom(group_df, i, matched) ==
    IF i > Len(group_df) THEN <<>>
    ELSE IF i \in matched THEN DuplicateGroupsFrom(group_df, i + 1, matched)
    ELSE LET group == <<i>> \o SimilarToName(group_df, i, matched \cup {i})
         IN  <<group>> \o DuplicateGroupsFrom(group_df, i + 1, matched \cup Range(group))

duplicate_groups(group_df) == DuplicateGroupsFrom(group_df, 1, {})

\* faulty variant of SumPrices: the first price for every record of the group
FirstPriceRepeated(group_df, group) ==
    IF group = <<>> THEN 0 ELSE Len(group) * group_df[Head(group)].price

RECURSIVE SumPrices(_, _)
SumPrices(group_df, group) ==
    IF group = <<>> THEN 0
    ELSE group_df[Head(group)].price + SumPrices(group_df, Tail(group))

\* a price as the fraction num / den
Times105(total, count) == [num |-> total * 105, den |-> count * 100]

\* find_duplicates: site_count and recommended_price on every row of the group
find_duplicates(group_df) ==
    LET groups == duplicate_groups(group_df)
        GroupOf(i) == groups[CHOOSE k \in 1..Len(groups) : i \in Range(groups[k])]
    IN  [i \in 1..Len(group_df) |->
            LET group == GroupOf(i)
            IN  IF Len(group) > 1
                THEN [site_count |-> Len(group),
                      recommended_price |-> Times105(SumPrices(group_df, group), Len(group))]
                     @@ group_df[i]
                ELSE [site_count |-> 1,
                      recommended_price |-> Times105(group_df[i].price, 1)]
                     @@ group_df[i]]

RECURSIVE ApplyByCategory(_, _)
\* groupby('category').apply(find_duplicates): the groups' frames, category by category
ApplyByCategory(table, c) ==
    IF c > Len(CategoryOrder) THEN <<>>
    ELSE LET group_df == CategoryGroup(table, CategoryOrder[c])
         IN  (IF Len(group_df) = 0 THEN <<>> ELSE find_duplicates(group_df))
             \o ApplyByCategory(table, c + 1)

\* df_copy with its score and recommended_price columns
Scored(table) ==
    LET df_copy == IgnoreIndex(ApplyByCategory(table, 1))
    IN  [i \in 1..Len(df_copy) |->
            LET row == df_copy[i]
                filled == IF NotNa(row, "recommended_price") THEN row.recommended_price
                          ELSE Times105(row.price, 1)
            IN  [score |-> calculate_score(row), recommended_price |-> filled] @@ row]

RECURSIVE SortedFrom(_, _)
\* sort_values(by='score', ascending=False) of the rows at the given positions:
\* every order by descending score (the order of equal scores is the sort's)
SortedFrom(table, positions) ==
    IF positions = {} THEN {<<>>}
    ELSE UNION {
            {<<table[p]>> \o rest : rest \in SortedFrom(table, positions \ {p})} :
            p \in {q \in positions : \A m \in positions : table[q].score >= table[m].score} }

SortedByScore(table) == SortedFrom(table, 1..Len(table))

\* DataFrame.head(n)
head(table, n) == SubSeq(table, 1, Min(n, Len(table)))

SimilarSuffix == <<" ", "(", "S", "i", "m", "i", "l", "a", "r", ")">>

\* faulty variant of Extras: the copies keep the original name
ExtrasUnrenamed(sorted_top, needed) ==
    head(sorted_top, Min(needed, Len(sorted_top)))

\* the copies of the highest-scored rows, renamed
Extras(sorted_top, needed) ==
    LET extras == head(sorted_top, Min(needed, Len(sorted_top)))
    IN  [i \in 1..Len(extras) |->
            [extras[i] EXCEPT !.product_name = @ \o SimilarSuffix]]

\* the slates one category can get: the top n rows, padded when there are fewer
CategorySlates(group, n) ==
    UNION {
        LET top_category == head(sorted, n)
        IN  IF Len(top_category) < n /\ Len(top_category) > 0
            THEN {head(top_category \o Extras(again, n - Len(top_category)), n) :
                    again \in SortedByScore(top_category)}
            ELSE {top_category}
        : sorted \in SortedByScore(group) }

RECURSIVE Slates(_, _, _)
\* the possible concatenations of the categories' slates, from category c on
Slates(table, n, c) ==
    IF c > Len(CategoryOrder) THEN {<<>>}
    ELSE LET group == CategoryGroup(table, CategoryOrder[c])
             rest == Slates(table, n, c + 1)
         IN  IF Len(group) = 0 THEN rest
             ELSE {slate \o r : slate \in CategorySlates(group, n), r \in rest}

RECURSIVE StableByScore(_)
\* a stable sort by descending score
StableByScore(table) ==
    IF table = <<>> THEN <<>>
    ELSE LET first == CHOOSE p \in 1..Len(table) :
                        /\ \A m \in 1..Len(table) : table[p].score >= table[m].score
                        /\ \A m \in 1..(p - 1) : table[m].score < table[p].score
             others == [i \in 1..(Len(table) - 1) |->
                          IF i < first THEN table[i] ELSE table[i + 1]]
         IN  <<table[first]>> \o StableByScore(others)

RECURSIVE FinalSort(_, _)
\* sort_values(by=['category', 'score'], ascending=[True, False])
FinalSort(table, c) ==
    IF c > Len(CategoryOrder) THEN <<>>
    ELSE StableByScore(CategoryGroup(table, CategoryOrder[c])) \o FinalSort(table, c + 1)

get_top_recommendations(n) ==
    /\ reco_pc = "ready"
    /\ reco_pc' = "returned"
    /\ top_n' = n
    /\ IF Len(reco_df) = 0
       THEN top_recommendations' = <<>>
       ELSE \E slates \in Slates(Scored(reco_df), n, 1) :
                top_recommendations' = FinalSort(IgnoreIndex(slates), 1)
    /\ UNCHANGED <<reco_df, dedup_vars, ledger_vars, norm_vars, pred_vars, more_vars>>

\* the tables the dashboard passes: processed records (view_count filled, no
\* review_count, no availability); besides the discounted records, the same
\* product at a second site for another price, and one record without a
\* discount
RecoRows ==
    [product_name : RecoNamePool, category : Categories, price : PricePool,
     rating : RatingPool, view_count : {500}, discount_percent : {40}]
    \cup
    { [product_name |-> <<"A","B","C","D">>, category |-> "food", price |-> 300,
       rating |-> 3, view_count |-> 500, discount_percent |-> 40],
      [product_name |-> <<"A","B","C","D">>, category |-> "food", price |-> 100,
       rating |-> 3, view_count |-> 500] }

InitReco ==
    /\ \E n \in 0..MaxRows : \E rows \in [1..n -> RecoRows] : reco_df = RangeIndexed(rows)
    /\ top_n = 0
    /\ reco_pc = "ready"
    /\ top_recommendations = <<>>
    /\ DedupIdle
    /\ LedgerIdle
    /\ NormIdle
    /\ PredIdle
    /\ MoreIdle

NextReco == \E n \in 1..MaxTopN : get_top_recommendations(n)

SpecReco == InitReco /\ [][NextReco]_vars

----------------------------------------------------------------------------
(* Recommendations: properties *)

\* the rows of the returned table that belong to category c
SlateOf(c) == CategoryGroup(top_recommendations, c)

\* C1 as stated: for every input table and every top_n >= 1 the returned table
\* has exactly top_n rows for each category that appears in the input.
C1_ExactlyTopNRowsPerCategory ==
    reco_pc = "returned" =>
        \A c \in Categories :
            Len(CategoryGroup(reco_df, c)) > 0 => Len(SlateOf(c)) = top_n

\* a product_name ending in " (Similar)"
Padded(row) ==
    /\ Len(row.product_name) > Len(SimilarSuffix)
    /\ SubSeq(row.product_name, Len(row.product_name) - Len(SimilarSuffix) + 1,
              Len(row.product_name)) = SimilarSuffix

\* the output row carries the input row's columns
FromInput(out_row, in_row) ==
    /\ out_row.product_name = in_row.product_name
    /\ out_row.category = in_row.category
    /\ out_row.price = in_row.price
    /\ out_row.rating = in_row.rating

\* the padding row equals the original row but for the suffixed name (and label)
CopyOf(padding, original) ==
    padding = [original EXCEPT !.product_name = @ \o SimilarSuffix, !.idx = padding.idx]

Injective(f) == \A x, y \in DOMAIN f : f[x] = f[y] => x = y

SingleCategoryOfThree ==
    /\ Len(reco_df) = 3
    /\ \E c \in Categories : \A i \in 1..3 : reco_df[i].category = c

\* C2: one category of 3 records and top_n = 5 give 5 rows: the 3 original
\* records and 2 padding rows, which are copies, renamed with the suffix
\* " (Similar)", of 2 different records that no uncopied record outscores.
C2_ThreePaddedToFive ==
    (reco_pc = "returned" /\ top_n = 5 /\ SingleCategoryOfThree) =>
        LET out == top_recommendations
            originals == {i \in 1..Len(out) : ~Padded(out[i])}
            copies == {i \in 1..Len(out) : Padded(out[i])}
        IN  /\ Len(out) = 5
            /\ Cardinality(originals) = 3
            /\ Cardinality(copies) = 2
            /\ \E f \in [originals -> 1..3] :
                   /\ Injective(f)
                   /\ \A i \in originals : FromInput(out[i], reco_df[f[i]])
            /\ \E g \in [copies -> originals] :
                   /\ Injective(g)
                   /\ \A i \in copies :
                          /\ CopyOf(out[i], out[g[i]])
                          /\ \A j \in originals \ {g[k] : k \in copies} :
                                 out[g[i]].score >= out[j].score

\* such a call, on records of different scores
C2_Witness ==
    /\ reco_pc = "returned"
    /\ top_n = 5
    /\ SingleCategoryOfThree
    /\ \E i, j \in 1..Len(top_recommendations) :
           top_recommendations[i].score > top_recommendations[j].score

\* C7 as stated: on the same records of a category, in the same order, the
\* Deduplicator's clustering yields the groups find_duplicates yields.
C7_SameGroupsAsFindDuplicates ==
    dedup_pc = "returned" =>
        \A c \in Categories :
            LET group_df == CategoryGroup(df, c)
            IN  Len(group_df) > 1 =>
                    clusters[c] = Labels(group_df, duplicate_groups(group_df))

\* the columns of a row that the two records of C19 share
Undiscounted(row) ==
    [f \in (DOMAIN row) \ {"discount_percent", "idx", "score"} |-> row[f]]

\* C19 as stated: of two records of the returned table that are identical but
\* for one having a discount_percent > 0 and the other having none, the
\* discounted one has the strictly higher score.
C19_DiscountedScoresHigher ==
    reco_pc = "returned" =>
        \A i, j \in 1..Len(top_recommendations) :
            LET a == top_recommendations[i]
                b == top_recommendations[j]
            IN  ( /\ NotNa(a, "discount_percent")
                  /\ a.discount_percent > 0
                  /\ ~NotNa(b, "discount_percent")
                  /\ Undiscounted(a) = Undiscounted(b) )
                => a.score > b.score

\* the positions of the input whose record the output row carries
Origins(out_row) ==
    {i \in 1..Len(reco_df) :
        /\ \/ out_row.product_name = reco_df[i].product_name
           \/ out_row.product_name = reco_df[i].product_name \o SimilarSuffix
        /\ out_row.category = reco_df[i].category
        /\ out_row.price = reco_df[i].price
        /\ out_row.rating = reco_df[i].rating}

\* the records of the input that find_duplicates groups with record i: those
\* of its category with a similar name (the names of the inputs are similar
\* only where they are equal but for case)
DuplicatesOf(i) ==
    {j \in 1..Len(reco_df) :
        /\ reco_df[j].category = reco_df[i].category
        /\ lower(reco_df[j].product_name) = lower(reco_df[i].product_name)}

RECURSIVE TotalPrice(_)
TotalPrice(positions) ==
    IF positions = {} THEN 0
    ELSE LET p == CHOOSE q \in positions : TRUE
         IN  reco_df[p].price + TotalPrice(positions \ {p})

----------------------------------------------------------------------------
(* Timestamps.  In a table a timestamp is a datetime64 value: {d} for day d, *)
(* {} for NaT.  In a CSV file, or in a column of dtype object, it is text:   *)
(* the ISO form of a day, the empty cell, or something else.                 *)

NaT == {}

IsoText(d) == [text |-> "iso", day |-> d]

EmptyCell == [text |-> "", day |-> 0]

JunkText == [text |-> "n/a", day |-> 0]

\* DataFrame.to_csv of a datetime64 cell
to_csv_cell(timestamp) ==
    IF timestamp = NaT THEN EmptyCell ELSE IsoText(CHOOSE d \in timestamp : TRUE)

\* pd.to_datetime(cell, errors='coerce')
to_datetime(cell) ==
    IF cell.text = "iso" THEN {cell.day} ELSE NaT

\* to_csv / to_datetime over a table
WriteCsv(table) ==
    [i \in 1..Len(table) |-> [table[i] EXCEPT !.timestamp = to_csv_cell(@)]]

ReadCsv(rows) ==
    [i \in 1..Len(rows) |-> [rows[i] EXCEPT !.timestamp = to_datetime(@)]]

----------------------------------------------------------------------------
(* DataProcessor.update_historical_data and DataProcessor.save_data *)

\* the batches passed in: rows of (product_name, source) and a timestamp
\* column that is missing ("none"), datetime64 (here of an old batch), ISO
\* text ("str", here of a current batch) or other text ("junk")
StampPool ==
    {[kind |-> "none", age |-> 0], [kind |-> "junk", age |-> 0],
     [kind |-> "datetime", age |-> OldAge], [kind |-> "str", age |-> 0]}

Batches == [rows : BatchRowsPool, stamp : StampPool]

\* new_data once its timestamp column is there and is datetime64
WithTimestamps(batch) ==
    LET timestamp ==
            CASE batch.stamp.kind = "none" -> {now}
              [] batch.stamp.kind = "datetime" -> {now - batch.stamp.age}
              [] batch.stamp.kind = "str" -> to_datetime(IsoText(now - batch.stamp.age))
              [] batch.stamp.kind = "junk" -> to_datetime(JunkText)
    IN  [i \in 1..Len(batch.rows) |->
            [product_name |-> batch.rows[i].product_name,
             source |-> batch.rows[i].source,
             timestamp |-> timestamp]]

\* a before b is a descending order of timestamps, NaT last
Precedes(a, b) ==
    \/ b.timestamp = NaT
    \/ /\ a.timestamp # NaT
       /\ \A x \in a.timestamp : \A y \in b.timestamp : x >= y

RECURSIVE NewestFirstFrom(_, _)
\* sort_values('timestamp', ascending=False): every descending order of the
\* rows at the given positions (the order of equal timestamps is the sort's)
NewestFirstFrom(table, positions) ==
    IF positions = {} THEN {<<>>}
    ELSE UNION {
            {<<table[p]>> \o rest : rest \in NewestFirstFrom(table, positions \ {p})} :
            p \in {q \in positions : \A m \in positions : Precedes(table[q], table[m])} }

\* faulty variant of InWindow: nothing is dropped
KeepAll(row, cutoff_date) == TRUE

\* combined_df['timestamp'] >= cutoff_date
InWindow(row, cutoff_date) == \E d \in row.timestamp : d >= cutoff_date

\* the tables the rewritten ledger can hold: the concatenation sorted, then
\* cut at cutoff_date (the rows that stay are found first: the orders of the
\* rows that stay are the same either way)
CombinedLedgers(new_data) ==
    LET historical_df == ReadCsv(historical_file.rows)
        combined_df == historical_df \o new_data
        cutoff_date == now - RetentionDays
        Kept(row) == InWindow(row, cutoff_date)
        staying == {i \in 1..Len(combined_df) : Kept(combined_df[i])}
    IN  IF Cardinality(staying) > MaxLedger THEN {}
        ELSE NewestFirstFrom(combined_df, staying)

\* the ledger files update_historical_data can leave, and what it returns;
\* io_error: reading or writing the ledger raises
UpdateOutcomes(new_data, io_error) ==
    IF io_error THEN {[file |-> historical_file, returned |-> FALSE]}
    ELSE IF historical_file.exists
    THEN {[file |-> [exists |-> TRUE, rows |-> WriteCsv(combined_df)], returned |-> TRUE] :
            combined_df \in CombinedLedgers(new_data)}
    ELSE {[file |-> [exists |-> TRUE, rows |-> WriteCsv(new_data)], returned |-> TRUE]}

update_historical_data(batch, io_error) ==
    /\ last_call.op # "idle"
    /\ calls < MaxCalls
    /\ calls' = calls + 1
    /\ \E outcome \in UpdateOutcomes(WithTimestamps(batch), io_error) :
        /\ Len(outcome.file.rows) <= MaxLedger
        /\ historical_file' = outcome.file
        /\ last_call' = [op |-> "update_historical_data",
                         new_data |-> WithTimestamps(batch),
                         before |-> historical_file,
                         at |-> now,
                         io_error |-> io_error,
                         returned |-> outcome.returned]
    /\ UNCHANGED <<processed_file, sample_file, now, ticks, dedup_vars, reco_vars, norm_vars, pred_vars, more_vars>>

\* df.head(SampleRows).to_dict('records') dumped with default=str
Sample(table) == WriteCsv(head(table, SampleRows))

\* io_error: "none", or the file whose reading or writing raises
save_data(batch, io_error) ==
    /\ last_call.op # "idle"
    /\ calls < MaxCalls
    /\ calls' = calls + 1
    /\ LET new_data == WithTimestamps(batch)
           Call(returned) ==
               [op |-> "save_data", new_data |-> new_data, before |-> historical_file,
                processed_before |-> processed_file, failed |-> io_error,
                at |-> now, io_error |-> io_error # "none", returned |-> returned]
       IN  IF Len(batch.rows) = 0
           THEN /\ last_call' = Call(FALSE)
                /\ UNCHANGED <<historical_file, processed_file, sample_file>>
           ELSE IF io_error = "processed"
           THEN /\ last_call' = Call(FALSE)
                /\ UNCHANGED <<historical_file, processed_file, sample_file>>
           ELSE \E outcome \in UpdateOutcomes(new_data, io_error = "historical") :
                /\ Len(outcome.file.rows) <= MaxLedger
                /\ processed_file' = [exists |-> TRUE, rows |-> WriteCsv(new_data)]
                /\ historical_file' = outcome.file
                /\ IF io_error = "sample"
                   THEN /\ sample_file' = sample_file
                        /\ last_call' = Call(FALSE)
                   ELSE /\ sample_file' = [exists |-> TRUE, rows |-> Sample(new_data)]
                        /\ last_call' = Call(TRUE)
    /\ UNCHANGED <<now, ticks, dedup_vars, reco_vars, norm_vars, pred_vars, more_vars>>

\* time passes between calls
Tick(days) ==
    /\ last_call.op # "idle"
    /\ ticks < MaxTicks
    /\ ticks' = ticks + 1
    /\ now' = now + days
    /\ UNCHANGED <<historical_file, processed_file, sample_file, calls, last_call,
                   dedup_vars, reco_vars, norm_vars, pred_vars, more_vars>>

InitLedger ==
    /\ historical_file = NoFile
    /\ processed_file = NoFile
    /\ sample_file = NoFile
    /\ now = StartDay
    /\ ticks = 0
    /\ calls = 0
    /\ last_call = [op |-> "none"]
    /\ DedupIdle
    /\ RecoIdle
    /\ NormIdle
    /\ PredIdle
    /\ MoreIdle

NextLedger ==
    \/ \E batch \in Batches : update_historical_data(batch, FALSE)
    \/ \E batch \in Batches : save_data(batch, "none")
    \/ \E days \in TickPool : Tick(days)

SpecLedger == InitLedger /\ [][NextLedger]_vars

\* the same with reads and writes that raise
NextLedgerFaults ==
    \/ \E batch \in Batches : \E io_error \in BOOLEAN :
            update_historical_data(batch, io_error)
    \/ \E batch \in Batches : \E io_error \in {"none", "processed", "historical", "sample"} :
            save_data(batch, io_error)
    \/ \E days \in TickPool : Tick(days)

SpecLedgerFaults == InitLedger /\ [][NextLedgerFaults]_vars

----------------------------------------------------------------------------
(* Ledger: properties *)

\* the ledger as a table, and the ledger the last call found
Ledger == ReadCsv(historical_file.rows)

LedgerBefore == ReadCsv(last_call.before.rows)

\* the last call ended without an I/O error
Completed(op) ==
    /\ last_call.op = op
    /\ ~last_call.io_error

\* how often the entry occurs in the table
Count(table, entry) == Cardinality({i \in 1..Len(table) : table[i] = entry})

\* C8 as stated: after every call of update_historical_data, and after every
\* successful save_data, the ledger holds no entry timestamped more than 90
\* days before the write.
C8_NoEntryOlderThan90Days ==
    (Completed("update_historical_data") \/ (Completed("save_data") /\ last_call.returned)) =>
        \A i \in 1..Len(Ledger) :
            \A d \in Ledger[i].timestamp : d >= last_call.at - RetentionDays

\* C9 as stated: after update_historical_data the ledger is, as a multiset,
\* the prior entries plus the new batch, restricted to those timestamped
\* within the last 90 days.
C9_AppendedAndRestrictedToWindow ==
    Completed("update_historical_data") =>
        LET appended == LedgerBefore \o last_call.new_data
        IN  \A entry \in Range(appended) \cup Range(Ledger) :
                Count(Ledger, entry) =
                    IF InWindow(entry, last_call.at - RetentionDays)
                    THEN Count(appended, entry)
                    ELSE 0

\* the batch of the last call is timestamped with the time of the call
CurrentBatch ==
    /\ Len(last_call.new_data) > 0
    /\ \A i \in 1..Len(last_call.new_data) :
           last_call.new_data[i].timestamp = {last_call.at}

\* C10: after a current batch has been saved, no entry timestamped 120 days
\* ago (or earlier) is in the ledger, whatever was written to it before, and
\* the entries of the current batch are.
C10_OldBatchGoneAfterCurrentSave ==
    (Completed("save_data") /\ last_call.returned /\ CurrentBatch) =>
        /\ \A i \in 1..Len(Ledger) :
               \A d \in Ledger[i].timestamp : d > last_call.at - OldAge
        /\ \A entry \in Range(last_call.new_data) :
               Count(Ledger, entry) >= Count(last_call.new_data, entry)

\* a current batch saved to a ledger that held entries timestamped 120 days ago
C10_Witness ==
    /\ Completed("save_data")
    /\ last_call.returned
    /\ CurrentBatch
    /\ \E i \in 1..Len(LedgerBefore) :
           LedgerBefore[i].timestamp = {last_call.at - OldAge}

----------------------------------------------------------------------------
(* Regular expressions of the category table.  A pattern is a set of        *)
(* alternatives, an alternative a sequence of tokens: a one-character       *)
(* literal, or one of the runs below.                                       *)

Whitespace == {" "}

Ws1 == "\\s+"

Ws0 == "\\s*"

WsDash0 == "[\\s-]*"

AnyRun == ".*"

\* the lengths k >= least of the runs of characters of chars that start at p
Runs(s, p, chars, least) ==
    {k \in least..(Len(s) - p + 1) : \A q \in p..(p + k - 1) : s[q] \in chars}

RECURSIVE MatchesAt(_, _, _)
\* the alternative matches a piece of s that starts at position p
MatchesAt(alt, s, p) ==
    IF alt = <<>> THEN TRUE
    ELSE LET token == Head(alt)
             rest == Tail(alt)
         IN  IF token = Ws1
             THEN \E k \in Runs(s, p, Whitespace, 1) : MatchesAt(rest, s, p + k)
             ELSE IF token = Ws0
             THEN \E k \in Runs(s, p, Whitespace, 0) : MatchesAt(rest, s, p + k)
             ELSE IF token = WsDash0
             THEN \E k \in Runs(s, p, Whitespace \cup {"-"}, 0) : MatchesAt(rest, s, p + k)
             ELSE IF token = AnyRun
             THEN \E k \in 0..(Len(s) - p + 1) : MatchesAt(rest, s, p + k)
             ELSE /\ p <= Len(s)
                  /\ lower(<<s[p]>>) = <<token>>
                  /\ MatchesAt(rest, s, p + 1)

\* re.search(pattern, s, re.IGNORECASE) finds a match
re_search(pattern, s) ==
    \E alt \in pattern.alternatives : \E p \in 1..(Len(s) + 1) : MatchesAt(alt, s, p)

\* self.category_mappings, in the order of the dict
category_mappings == <<
    [alternatives |->
        { <<"t","e","a">>,
          <<"c","o","f","f","e","e">>,
          <<"c","o","c","o","a">>,
          <<"h","o","t",Ws1,"c","h","o","c","o","l","a","t","e">>,
          <<"m","i","l","o">>,
          <<"b","o","u","r","n","v","i","t","a">>,
          <<"o","v","a","l","t","i","n","e">> },
     category |-> "beverages"],
    [alternatives |->
        { <<"w","a","t","e","r">>,
          <<"m","i","n","e","r","a","l",Ws1,"w","a","t","e","r">>,
          <<"b","o","t","t","l","e","d",Ws1,"w","a","t","e","r">>,
          <<"t","a","b","l","e",Ws1,"w","a","t","e","r">> },
     category |-> "beverages"],
    [alternatives |->
        { <<"e","n","e","r","g","y",Ws1,"d","r","i","n","k">>,
          <<"m","i","l","k">>,
          <<"c","h","o","c","o","l","a","t","e",Ws1,"d","r","i","n","k">> },
     category |-> "beverages"],
    [alternatives |->
        { <<"s","o","d","a">>,
          <<"c","o","l","a">>,
          <<"p","e","p","s","i">>,
          <<"c","o","c","a",WsDash0,"c","o","l","a">>,
          <<"f","a","n","t","a">>,
          <<"s","p","r","i","t","e">>,
          <<"7","u","p">>,
          <<"s","e","v","e","n",Ws0,"u","p">>,
          <<"c","o","k","e">> },
     category |-> "soft-drinks"],
    [alternatives |->
        { <<"s","o","f","t",Ws1,"d","r","i","n","k">>,
          <<"c","a","r","b","o","n","a","t","e","d">> },
     category |-> "soft-drinks"],
    [alternatives |->
        { <<"m","i","r","i","n","d","a">>,
          <<"m","o","u","n","t","a","i","n",Ws1,"d","e","w">>,
          <<"t","e","e","m">>,
          <<"s","c","h","w","e","p","p","e","s">> },
     category |-> "soft-drinks"],
    [alternatives |->
        { <<"d","e","t","e","r","g","e","n","t">>,
          <<"s","o","a","p">>,
          <<"w","a","s","h","i","n","g",Ws1,"p","o","w","d","e","r">> },
     category |-> "detergents"],
    [alternatives |->
        { <<"b","l","e","a","c","h">>,
          <<"s","t","a","i","n",Ws1,"r","e","m","o","v","e","r">>,
          <<"f","a","b","r","i","c",Ws1,"c","l","e","a","n","e","r">> },
     category |-> "detergents"],
    [alternatives |->
        { <<"l","a","u","n","d","r","y">>,
          <<"c","l","e","a","n","i","n","g",Ws1,"a","g","e","n","t">>,
          <<"d","i","s","h","w","a","s","h","i","n","g">> },
     category |-> "detergents"],
    [alternatives |->
        { <<"o","m","o">>,
          <<"a","r","i","e","l">>,
          <<"s","u","n","l","i","g","h","t">>,
          <<"s","u","r","f">> },
     category |-> "detergents"],
    [alternatives |->
        { <<"b","i","s","c","u","i","t">>,
          <<"c","o","o","k","i","e">>,
          <<"w","a","f","e","r">>,
          <<"c","h","i","p","s">>,
          <<"c","r","i","s","p","s">> },
     category |-> "snacks"],
    [alternatives |->
        { <<"s","n","a","c","k">>,
          <<"c","h","o","c","o","l","a","t","e">>,
          <<"c","a","n","d","y">>,
          <<"s","w","e","e","t">>,
          <<"g","u","m">> },
     category |-> "snacks"],
    [alternatives |->
        { <<"p","o","p","c","o","r","n">>,
          <<"p","r","i","n","g","l","e","s">>,
          <<"d","i","g","e","s","t","i","v","e">> },
     category |-> "snacks"],
    [alternatives |->
        { <<"s","o","a","p">>,
          <<"b","o","d","y",Ws1,"w","a","s","h">>,
          <<"s","h","o","w","e","r",Ws1,"g","e","l">> },
     category |-> "personal-care"],
    [alternatives |->
        { <<"t","o","o","t","h","p","a","s","t","e">>,
          <<"t","o","o","t","h","b","r","u","s","h">>,
          <<"d","e","n","t","a","l">>,
          <<"f","l","o","s","s">> },
     category |-> "personal-care"],
    [alternatives |->
        { <<"s","h","a","m","p","o","o">>,
          <<"c","o","n","d","i","t","i","o","n","e","r">>,
          <<"h","a","i","r",Ws1,"c","a","r","e">> },
     category |-> "personal-care"],
    [alternatives |->
        { <<"d","e","o","d","o","r","a","n","t">>,
          <<"a","n","t","i","p","e","r","s","p","i","r","a","n","t">>,
          <<"b","o","d","y",Ws1,"s","p","r","a","y">> },
     category |-> "personal-care"],
    [alternatives |->
        { <<"l","o","t","i","o","n">>,
          <<"c","r","e","a","m">>,
          <<"m","o","i","s","t","u","r","i","z","e","r">>,
          <<"s","u","n","s","c","r","e","e","n">> },
     category |-> "personal-care"],
    [alternatives |->
        { <<"r","i","c","e">>,
          <<"b","e","a","n","s">>,
          <<"p","a","s","t","a">>,
          <<"n","o","o","d","l","e","s">>,
          <<"s","p","a","g","h","e","t","t","i">> },
     category |-> "food"],
    [alternatives |->
        { <<"f","l","o","u","r">>,
          <<"s","u","g","a","r">>,
          <<"s","a","l","t">>,
          <<"s","e","a","s","o","n","i","n","g">>,
          <<"s","p","i","c","e">> },
     category |-> "food"],
    [alternatives |->
        { <<"o","i","l">>,
          <<"c","o","o","k","i","n","g",Ws1,"o","i","l">>,
          <<"v","e","g","e","t","a","b","l","e",Ws1,"o","i","l">>,
          <<"p","a","l","m",Ws1,"o","i","l">> },
     category |-> "food"],
    [alternatives |->
        { <<"b","r","e","a","d">>,
          <<"c","e","r","e","a","l">>,
          <<"b","r","e","a","k","f","a","s","t">> },
     category |-> "food"],
    [alternatives |->
        { <<"c","a","n","n","e","d">>,
          <<"t","i","n","n","e","d">>,
          <<"s","a","r","d","i","n","e">>,
          <<"t","u","n","a">>,
          <<"t","o","m","a","t","o",Ws1,"p","a","s","t","e">> },
     category |-> "food"],
    [alternatives |-> {<<AnyRun>>}, category |-> "other"]
>>

CanonicalCategories ==
    {"beverages", "soft-drinks", "detergents", "snacks", "personal-care", "food", "other"}

\* faulty variant of FirstMatch: the last rule whose pattern is found
LastMatch(s) ==
    LET hits == {k \in 1..Len(category_mappings) : re_search(category_mappings[k], s)}
    IN  IF hits = {} THEN 0 ELSE CHOOSE k \in hits : \A m \in hits : k >= m

\* the first rule of the table whose pattern is found in s, 0 when there is none
FirstMatch(s) ==
    LET hits == {k \in 1..Len(category_mappings) : re_search(category_mappings[k], s)}
    IN  IF hits = {} THEN 0 ELSE CHOOSE k \in hits : \A m \in hits : k <= m

\* categorize_product, product_name a string; "AttributeError" when it raises
\* (a number or NaN has no lower())
categorize_product(product_name, original_category) ==
    IF product_name = <<>> THEN "other"
    ELSE LET by_name == FirstMatch(lower(product_name))
         IN  IF by_name # 0 THEN category_mappings[by_name].category
             ELSE IF original_category = None THEN "other"
             ELSE IF ~IsText(original_category) THEN "AttributeError"
             ELSE IF original_category.text = <<>> THEN "other"
             ELSE LET by_category == FirstMatch(lower(original_category.text))
                  IN  IF by_category # 0 THEN category_mappings[by_category].category
                      ELSE "other"

----------------------------------------------------------------------------
(* Numbers.  A float is kept in thousandths: 12500.0 is 12500000.           *)

Milli == 1000

Digits == {"0", "1", "2", "3", "4", "5", "6", "7", "8", "9"}

DigitValue ==
    ("0" :> 0) @@ ("1" :> 1) @@ ("2" :> 2) @@ ("3" :> 3) @@ ("4" :> 4) @@
    ("5" :> 5) @@ ("6" :> 6) @@ ("7" :> 7) @@ ("8" :> 8) @@ ("9" :> 9)

RECURSIVE NatOf(_)
\* the number a run of digits denotes
NatOf(digits) ==
    IF digits = <<>> THEN 0
    ELSE 10 * NatOf(SubSeq(digits, 1, Len(digits) - 1)) + DigitValue[digits[Len(digits)]]

\* the characters of s that are in chars, in order
Keep(s, chars) == SelectSeq(s, LAMBDA ch : ch \in chars)

\* float() of text made of digits and points: [ok, value]; ValueError is ok = FALSE
float_of_decimal(text) ==
    LET points == {q \in 1..Len(text) : text[q] = "."}
    IN  IF \/ Cardinality(points) > 1
           \/ Keep(text, Digits) = <<>>
           \/ \E q \in 1..Len(text) : text[q] \notin Digits \cup {"."}
        THEN [ok |-> FALSE]
        ELSE LET point == IF points = {} THEN Len(text) + 1 ELSE CHOOSE q \in points : TRUE
                 whole == SubSeq(text, 1, point - 1)
                 fraction == SubSeq(text, point + 1, Len(text))
                 thousandths == SubSeq(fraction \o <<"0", "0", "0">>, 1, 3)
             IN  [ok |-> TRUE, value |-> NatOf(whole) * Milli + NatOf(thousandths)]

\* str.strip()
strip(s) ==
    LET inked == {q \in 1..Len(s) : s[q] \notin Whitespace}
    IN  IF inked = {} THEN <<>>
        ELSE SubSeq(s, CHOOSE q \in inked : \A m \in inked : q <= m,
                       CHOOSE q \in inked : \A m \in inked : q >= m)

\* float() of a string: blanks around it, a sign, digits with at most one point
float_of_text(text) ==
    LET stripped == strip(text)
        signed == stripped # <<>> /\ Head(stripped) \in {"+", "-"}
        magnitude == float_of_decimal(IF signed THEN Tail(stripped) ELSE stripped)
    IN  IF ~magnitude.ok THEN magnitude
        ELSE IF signed /\ Head(stripped) = "-"
             THEN [ok |-> TRUE, value |-> 0 - magnitude.value]
             ELSE magnitude

\* DataProcessor.normalize_price
normalize_price(price) ==
    IF price = NaN \/ price = None THEN 0
    ELSE IF ~IsText(price) THEN price.num
    ELSE LET parsed == float_of_text(price.text)
         IN  IF parsed.ok THEN parsed.value ELSE 0

\* BaseScraper.extract_price, AsyncBaseScraper.extract_price, on a string
extract_price(text) ==
    IF text = <<>> THEN 0
    ELSE LET price_text == Keep(Keep(text, {ch \in Range(text) : ch # ","}), Digits \cup {"."})
             parsed == float_of_decimal(price_text)
         IN  IF parsed.ok THEN parsed.value ELSE 0

----------------------------------------------------------------------------
(* Sizes in product names *)

Letters == {LowerCaseLetters[k] : k \in 1..26} \cup {UpperCaseLetters[k] : k \in 1..26}

\* the length of the longest run of characters of chars that starts at p
LongestRun(s, p, chars) ==
    LET runs == Runs(s, p, chars, 0)
    IN  CHOOSE k \in runs : \A m \in runs : k >= m

\* the literal word stands in s at position p, whatever the case
WordAt(word, s, p) ==
    /\ p + Len(word) - 1 <= Len(s)
    /\ lower(SubSeq(s, p, p + Len(word) - 1)) = word

\* the ends of the pieces that (\d+\.?\d*) can match from p, longest first;
\* with_point is FALSE for the patterns whose group is (\d+)
NumberEnds(s, p, with_point) ==
    LET whole == LongestRun(s, p, Digits)
        after == p + whole
    IN  IF whole = 0 THEN <<>>
        ELSE IF with_point /\ after <= Len(s) /\ s[after] = "."
             THEN <<after + LongestRun(s, after + 1, Digits), after - 1>>
             ELSE <<after - 1>>

\* the group (\d+\.?\d*) of a match of  (\d+\.?\d*)\s*unit  at p, <<>> when
\* there is no match at p
GroupAt(s, p, unit, with_point) ==
    LET ends == NumberEnds(s, p, with_point)
        Fits(e) == \E k \in Runs(s, e + 1, Whitespace, 0) : WordAt(unit, s, e + 1 + k)
        fitting == SelectSeq(ends, Fits)
    IN  IF fitting = <<>> THEN <<>> ELSE SubSeq(s, p, Head(fitting))

\* self.unit_patterns, in the order of the dicts: the unit the number must be
\* followed by, and the alternatives that have no group
unit_patterns ==
    << [unit_type |-> "volume", unit |-> <<"m","l">>, measured |-> <<"m","l">>, with_point |-> TRUE,
        bare |-> { <<"m","i","l","l","i","l","i","t","e","r">>,
                   <<"m","i","l","l","i","l","i","t","r","e">> }],
       [unit_type |-> "volume", unit |-> <<"l">>, measured |-> <<"l">>, with_point |-> TRUE,
        bare |-> { <<"l","i","t","e","r">>, <<"l","i","t","r","e">>, <<"l","t","r">> }],
       [unit_type |-> "volume", unit |-> <<"c","l">>, measured |-> <<"c","l">>, with_point |-> TRUE,
        bare |-> { <<"c","e","n","t","i","l","i","t","e","r">>,
                   <<"c","e","n","t","i","l","i","t","r","e">> }],
       [unit_type |-> "weight", unit |-> <<"g">>, measured |-> <<"g">>, with_point |-> TRUE,
        bare |-> { <<"g","r","a","m">>, <<"g","m">> }],
       [unit_type |-> "weight", unit |-> <<"k","g">>, measured |-> <<"k","g">>, with_point |-> TRUE,
        bare |-> { <<"k","i","l","o">>, <<"k","i","l","o","g","r","a","m">> }],
       [unit_type |-> "quantity", unit |-> <<"p","a","c","k">>, measured |-> <<"p","a","c","k">>,
        with_point |-> FALSE,
        bare |-> { <<"p","k">> }],
       [unit_type |-> "quantity", unit |-> <<"p","i","e","c","e">>, measured |-> <<"p","c">>,
        with_point |-> FALSE,
        bare |-> { <<"p","i","e","c","e">>, <<"p","c","s">> }] >>

\* match.group(1) of re.search(pattern, s, re.IGNORECASE): the group of the
\* leftmost match, <<>> when there is no match or the match is one of the
\* alternatives without a group
group_1(pattern, s) ==
    LET Found(p) ==
            \/ GroupAt(s, p, pattern.measured, pattern.with_point) # <<>>
            \/ \E word \in pattern.bare : WordAt(word, s, p)
        starts == {p \in 1..Len(s) : Found(p)}
    IN  IF starts = {} THEN <<>>
        ELSE GroupAt(s, CHOOSE p \in starts : \A m \in starts : p <= m,
                     pattern.measured, pattern.with_point)

RECURSIVE UnitsFrom(_, _)
\* the loop of normalize_units from pattern k on
UnitsFrom(product_name, k) ==
    IF k > Len(unit_patterns) THEN [unit_type |-> "", unit |-> <<>>, value |-> 0]
    ELSE LET group == group_1(unit_patterns[k], product_name)
         IN  IF group # <<>>
             THEN [unit_type |-> unit_patterns[k].unit_type,
                   unit |-> unit_patterns[k].unit,
                   value |-> float_of_decimal(group).value]
             ELSE UnitsFrom(product_name, k + 1)

\* DataProcessor.normalize_units, on a string
normalize_units(product_name) ==
    IF product_name = <<>> THEN [unit_type |-> "", unit |-> <<>>, value |-> 0]
    ELSE UnitsFrom(product_name, 1)

\* the synonyms AsyncBaseScraper.normalize_units converts, with the factor
\* (in thousandths) and the standard unit
UnitSynonyms ==
    << [names |-> { <<"l">>, <<"l","t","r">>, <<"l","i","t","r","e">>, <<"l","i","t","e","r">>,
                    <<"l","i","t","e","r","s">>, <<"l","i","t","r","e","s">> },
        factor |-> 1000000, unit |-> <<"m","l">>],
       [names |-> { <<"c","l">>, <<"c","e","n","t","i","l","i","t","e","r">>,
                    <<"c","e","n","t","i","l","i","t","r","e">> },
        factor |-> 10000, unit |-> <<"m","l">>],
       [names |-> { <<"m","l">>, <<"m","i","l","l","i","l","i","t","e","r">>,
                    <<"m","i","l","l","i","l","i","t","r","e">> },
        factor |-> 1000, unit |-> <<"m","l">>],
       [names |-> { <<"k","g">>, <<"k","i","l","o">>, <<"k","i","l","o","s">>,
                    <<"k","i","l","o","g","r","a","m">>, <<"k","i","l","o","g","r","a","m","s">> },
        factor |-> 1000000, unit |-> <<"g">>],
       [names |-> { <<"g">>, <<"g","r","a","m">>, <<"g","r","a","m","s">>, <<"g","m">> },
        factor |-> 1000, unit |-> <<"g">>],
       [names |-> { <<"m","g">>, <<"m","i","l","l","i","g","r","a","m">>,
                    <<"m","i","l","l","i","g","r","a","m","s">> },
        factor |-> 1, unit |-> <<"g">>] >>

\* value and unit in the standard unit; an unknown unit is kept as it is
Converted(value, unit) ==
    LET known == {k \in 1..Len(UnitSynonyms) : unit \in UnitSynonyms[k].names}
    IN  IF known = {} THEN [value |-> value, unit |-> unit]
        ELSE LET synonym == UnitSynonyms[CHOOSE k \in known : TRUE]
             IN  [value |-> (value * synonym.factor) \div Milli, unit |-> synonym.unit]

\* the first maximal run of characters of chars in s at or after position from,
\* <<>> when there is none
FirstToken(s, from, chars) ==
    LET starts == {p \in from..Len(s) : s[p] \in chars}
    IN  IF starts = {} THEN <<>>
        ELSE LET p == CHOOSE q \in starts : \A m \in starts : q <= m
             IN  SubSeq(s, p, p + LongestRun(s, p, chars) - 1)

\* the first match of (\d+\.?\d*) in s: [from, to], to < from when there is none
FirstNumber(s) ==
    LET starts == {p \in 1..Len(s) : s[p] \in Digits}
    IN  IF starts = {} THEN [from |-> 1, to |-> 0]
        ELSE LET p == CHOOSE q \in starts : \A m \in starts : q <= m
             IN  [from |-> p, to |-> Head(NumberEnds(s, p, TRUE))]

\* AsyncBaseScraper.normalize_units, on a string: the first number and the
\* first run of letters of the text
AsyncBaseScraper_normalize_units(text) ==
    LET value_match == FirstNumber(text)
        unit_match == FirstToken(text, 1, Letters)
    IN  IF text = <<>> \/ value_match.to < value_match.from
        THEN [value |-> 0, unit |-> <<>>]
        ELSE Converted(float_of_decimal(SubSeq(text, value_match.from, value_match.to)).value,
                       lower(unit_match))

----------------------------------------------------------------------------
(* Collecting and processing: AsyncJumiaScraper.scrape_category's parsing of *)
(* a page, and DataProcessor.process_data                                    *)

\* most raw records, and most cards on a page
MaxProducts == 2

\* names
Soap == <<"S","o","a","p">>

Xyz == <<"x","y","z">>

OneAndAHalfL == <<"1",".","5","L">>

TwoKg == <<"2","k","g">>

FiveHundredMl == <<"5","0","0","m","l">>

TeaOneL == <<"T","e","a"," ","1","L">>

\* price texts; "N" stands for the naira sign
NairaPrice == <<"N","1","2",",","5","0","0",".","0","0">>

PlainPrice == <<"1","2","5","0","0">>

\* source categories
Rice == <<"R","i","c","e">>

Misc == <<"m","i","s","c">>

SourceCategories == {Rice, Misc}

\* raw records as collectors may hand them over: the price a string with a
\* currency sign, a negative number, empty, None or missing; the category
\* missing
RawPool ==
    { [product_name |-> Soap, price |-> [text |-> NairaPrice], category |-> [text |-> Misc]],
      [product_name |-> Xyz, price |-> [num |-> 0 - 5 * Milli], category |-> [text |-> Rice]],
      [product_name |-> OneAndAHalfL, price |-> [text |-> <<>>], category |-> [text |-> Misc]],
      [product_name |-> TwoKg, price |-> None, category |-> [text |-> Rice]],
      [product_name |-> FiveHundredMl, category |-> [text |-> Misc]],
      [product_name |-> TeaOneL, price |-> [num |-> 12500 * Milli]],
      [product_name |-> <<>>, price |-> [text |-> PlainPrice], category |-> [text |-> Rice]] }

\* the cards of a page: name and price text
CardPool ==
    { [name |-> Soap, price_text |-> NairaPrice],
      [name |-> Xyz, price_text |-> <<>>],
      [name |-> TeaOneL, price_text |-> <<"1",".","2",".","3">>],
      [name |-> FiveHundredMl, price_text |-> <<"-","5">>],
      [name |-> OneAndAHalfL, price_text |-> PlainPrice] }

\* np.random.uniform(0, 10), doubled
UniformPool == {0, 19}

\* np.random.randint(10, 1000)
ViewCountPool == {500}

\* the product a card is parsed into (no discount badge, stars or bestseller
\* badge on the card)
ParsedCard(card, category_name) ==
    LET product_name == strip(card.name)
        price_text == IF card.price_text = <<>> THEN <<"0">> ELSE strip(card.price_text)
        normalized_units == AsyncBaseScraper_normalize_units(product_name)
    IN  [product_name |-> product_name,
         price |-> [num |-> extract_price(price_text)],
         discount_percent |-> 0,
         rating |-> 0,
         is_bestseller |-> FALSE,
         category |-> [text |-> category_name],
         source |-> "Jumia",
         timestamp |-> {now},
         volume_value |-> normalized_units.value,
         volume_unit |-> normalized_units.unit]

\* scrape_page: the products of the cards, added to all_products
scrape_page(category_name) ==
    /\ norm_pc = "start"
    /\ cards # <<>>
    /\ norm_pc' = "scraped"
    /\ products' = products \o [i \in 1..Len(cards) |-> ParsedCard(cards[i], category_name)]
    /\ UNCHANGED <<cards, normalized, processed, dedup_vars, reco_vars, ledger_vars, pred_vars, more_vars>>

\* the columns of pd.DataFrame(products), and a record's cell in a column
Columns(records) == UNION {DOMAIN records[i] : i \in 1..Len(records)}

Cell(record, column) == IF column \in DOMAIN record THEN record[column] ELSE NaN

\* compute_sales_rank, doubled, with the value drawn for its random component;
\* a missing flag (NaN) counts as set
compute_sales_rank(record, columns, uniform) ==
    LET Flag(column) == column \in columns /\ (column \notin DOMAIN record \/ record[column])
    IN  (IF Flag("is_bestseller") THEN 200 ELSE 0)
        + (IF Flag("is_featured") THEN 100 ELSE 0)
        + (IF "discount_percent" \in DOMAIN record THEN Min(record.discount_percent, 50) ELSE 0)
        + (IF "rating" \in DOMAIN record THEN record.rating * 10 ELSE 0)
        + uniform

\* fillna: 0 in a numeric column, '' in a column of dtype object
FillValue(column) ==
    IF column \in {"rating", "discount_percent", "volume_value"} THEN 0
    ELSE IF column = "volume_unit" THEN <<>>
    ELSE ""

\* the row process_data makes of a raw record (its product_name a string)
NormalizedRow(record, columns, i, uniform, view_count) ==
    LET product_name == strip(record.product_name)
        unit_info == normalize_units(product_name)
        fields ==
            {"idx", "product_name", "unit_type", "unit", "unit_value", "sales_rank",
             "timestamp", "view_count"}
            \cup columns
            \cup (IF "category" \in columns THEN {"orig_category"} ELSE {})
    IN  [f \in fields |->
            CASE f = "idx" -> i - 1
              [] f = "product_name" -> product_name
              [] f = "price" -> normalize_price(Cell(record, "price"))
              [] f = "orig_category" ->
                    IF Cell(record, "category") \in {NaN, None} THEN [text |-> <<>>]
                    ELSE record.category
              [] f = "category" -> categorize_product(product_name, Cell(record, "category"))
              [] f = "unit_type" -> unit_info.unit_type
              [] f = "unit" -> unit_info.unit
              [] f = "unit_value" -> unit_info.value
              [] f = "sales_rank" -> compute_sales_rank(record, columns, uniform)
              [] f = "timestamp" ->
                    IF "timestamp" \in DOMAIN record THEN record.timestamp ELSE {now}
              [] f = "view_count" ->
                    IF "view_count" \in DOMAIN record THEN record.view_count
                    ELSE IF "view_count" \in columns THEN 0
                    ELSE view_count
              [] OTHER -> IF f \in DOMAIN record THEN record[f] ELSE FillValue(f)]

\* the keys of groupby('category'), sorted
GroupbyOrder ==
    <<"beverages", "detergents", "food", "other", "personal-care", "snacks", "soft-drinks">>

RECURSIVE DedupFramesOver(_, _)
\* the possible deduplicated_dfs lists of deduplicate_products for the
\* categories of order
DedupFramesOver(table, order) ==
    IF order = <<>> THEN {<<>>}
    ELSE LET group_df == CategoryGroup(table, Head(order))
             rest == DedupFramesOver(table, Tail(order))
         IN  IF Len(group_df) = 0 THEN rest
             ELSE {<<f>> \o r : f \in DedupCategory(group_df), r \in rest}

\* what process_data can come to on the raw records: its table before
\* deduplication and the table it returns; an exception makes it return an
\* empty table
ProcessOutcomes(records) ==
    LET n == Len(records)
        columns == Columns(records)
        tables ==
            {[i \in 1..n |-> NormalizedRow(records[i], columns, i, uniform[i], view_count[i])] :
                uniform \in [1..n -> UniformPool], view_count \in [1..n -> ViewCountPool]}
        attribute_error ==
            /\ "category" \in columns
            /\ \E i \in 1..n :
                   categorize_product(strip(records[i].product_name),
                                      Cell(records[i], "category")) = "AttributeError"
    IN  IF records = <<>> \/ attribute_error
        THEN {[normalized |-> <<>>, processed |-> <<>>]}
        ELSE IF "category" \notin columns
        THEN {[normalized |-> table, processed |-> <<>>] : table \in tables}
        ELSE UNION {
                {[normalized |-> table, processed |-> IgnoreIndex(Concat(frames))] :
                    frames \in DedupFramesOver(table, GroupbyOrder)} :
                table \in tables}

process_data ==
    /\ norm_pc \in {"start", "scraped"}
    /\ norm_pc' = "returned"
    /\ \E outcome \in ProcessOutcomes(products) :
           /\ normalized' = outcome.normalized
           /\ processed' = outcome.processed
    /\ UNCHANGED <<cards, products, dedup_vars, reco_vars, ledger_vars, pred_vars, more_vars>>

InitNormalize ==
    /\ \E n \in 0..MaxProducts :
           \/ \E records \in [1..n -> RawPool] : products = records /\ cards = <<>>
           \/ \E page \in [1..n -> CardPool] : cards = page /\ products = <<>>
    /\ norm_pc = "start"
    /\ normalized = <<>>
    /\ processed = <<>>
    /\ DedupIdle
    /\ RecoIdle
    /\ LedgerIdle
    /\ PredIdle
    /\ MoreIdle

NextNormalize ==
    \/ \E category_name \in SourceCategories : scrape_page(category_name)
    \/ process_data

SpecNormalize == InitNormalize /\ [][NextNormalize]_vars

----------------------------------------------------------------------------
(* Normalisation: properties *)

\* process_data returned, without an exception, on raw records
Normalized ==
    /\ norm_pc = "returned"
    /\ Len(products) > 0
    /\ Len(normalized) = Len(products)
    /\ "category" \in Columns(products)

\* the first category-specific rule (any rule but the default) whose pattern is
\* found in s, 0 when there is none
SpecificMatch(s) ==
    LET hits == {k \in 1..Len(category_mappings) :
                    /\ category_mappings[k].category # "other"
                    /\ re_search(category_mappings[k], s)}
    IN  IF hits = {} THEN 0 ELSE CHOOSE k \in hits : \A m \in hits : k <= m

\* C11 as stated: when no category-specific rule matches the non-empty name,
\* the category is that of the first rule matching the source category string,
\* and "other" only when the source category matches no such rule either.
C11_FallsBackToSourceCategory ==
    (Normalized /\ "category" \in Columns(products)) =>
        \A i \in 1..Len(products) :
            LET name == normalized[i].product_name
                source_category == Cell(products[i], "category")
                by_category ==
                    IF IsText(source_category)
                    THEN SpecificMatch(lower(source_category.text))
                    ELSE 0
            IN  (name # <<>> /\ SpecificMatch(lower(name)) = 0) =>
                    normalized[i].category =
                        IF by_category # 0 THEN category_mappings[by_category].category
                        ELSE "other"

\* C12: the category of a record with a non-empty name is that of the first
\* rule of the table whose pattern is found in the lower-cased name, it is one
\* of the seven canonical categories, and records of the same name and source
\* category get the same category.
C12_FirstRuleInTableOrder ==
    (Normalized /\ "category" \in Columns(products)) =>
        /\ \A i \in 1..Len(products) :
               LET name == lower(normalized[i].product_name)
               IN  /\ normalized[i].category \in CanonicalCategories
                   /\ name # <<>> =>
                          \E k \in 1..Len(category_mappings) :
                              /\ re_search(category_mappings[k], name)
                              /\ \A j \in 1..(k - 1) : ~re_search(category_mappings[j], name)
                              /\ normalized[i].category = category_mappings[k].category
        /\ \A i, j \in 1..Len(products) :
               ( /\ normalized[i].product_name = normalized[j].product_name
                 /\ Cell(products[i], "category") = Cell(products[j], "category") )
               => normalized[i].category = normalized[j].category

\* a name in which a detergents pattern and a personal-care pattern are found,
\* categorized twice
C12_Witness ==
    /\ Normalized
    /\ "category" \in Columns(products)
    /\ Len(products) = 2
    /\ normalized[1].product_name = normalized[2].product_name
    /\ LET name == lower(normalized[1].product_name)
       IN  /\ \E k \in 1..Len(category_mappings) :
                  category_mappings[k].category = "detergents"
                  /\ re_search(category_mappings[k], name)
           /\ \E k \in 1..Len(category_mappings) :
                  category_mappings[k].category = "personal-care"
                  /\ re_search(category_mappings[k], name)
           /\ normalized[1].category = "detergents"

\* C13 as stated: every record of the table process_data returns has a category
\* of the canonical set and a price >= 0.
C13_CategoryAndNonNegativePrice ==
    norm_pc = "returned" =>
        \A i \in 1..Len(processed) :
            /\ "category" \in DOMAIN processed[i]
            /\ processed[i].category \in CanonicalCategories
            /\ "price" \in DOMAIN processed[i]
            /\ processed[i].price >= 0

\* the float that is left of the text when the commas and every character
\* other than digits and the point are removed, 0.0 when that is no float
StrippedAndParsed(text) ==
    LET kept == Keep(text, Digits \cup {"."})
        parsed == float_of_decimal(kept)
    IN  IF parsed.ok THEN parsed.value ELSE 0

\* C14 as stated: the normalized price of a string is the float left after
\* removing commas and all characters but digits and the point, and 0.0 for
\* empty input, None and unparseable text.
C14_PriceStrippedAndParsed ==
    (Normalized /\ "price" \in Columns(products)) =>
        \A i \in 1..Len(products) :
            LET price == Cell(products[i], "price")
            IN  /\ price = None => normalized[i].price = 0
                /\ IsText(price) => normalized[i].price = StrippedAndParsed(price.text)

\* the conversions to millilitres and grams, factors in thousandths
CanonicalUnits ==
    (<<"l">> :> [factor |-> 1000000, unit |-> <<"m","l">>]) @@
    (<<"c","l">> :> [factor |-> 10000, unit |-> <<"m","l">>]) @@
    (<<"m","l">> :> [factor |-> 1000, unit |-> <<"m","l">>]) @@
    (<<"k","g">> :> [factor |-> 1000000, unit |-> <<"g">>]) @@
    (<<"m","g">> :> [factor |-> 1, unit |-> <<"g">>]) @@
    (<<"g">> :> [factor |-> 1000, unit |-> <<"g">>])

\* the size in canonical units: the first numeric token and the first
\* alphabetic token following it, converted
CanonicalSize(text) ==
    LET number == FirstNumber(text)
        unit == lower(FirstToken(text, number.to + 1, Letters))
        value == float_of_decimal(SubSeq(text, number.from, number.to)).value
    IN  IF number.to < number.from THEN [value |-> 0, unit |-> <<>>]
        ELSE IF unit \in DOMAIN CanonicalUnits
        THEN [value |-> (value * CanonicalUnits[unit].factor) \div Milli,
              unit |-> CanonicalUnits[unit].unit]
        ELSE [value |-> value, unit |-> unit]

\* C15 as stated: the size process_data and the scraper extract from a name is
\* the size in canonical units.
C15_SizeInCanonicalUnits ==
    /\ Normalized =>
           \A i \in 1..Len(products) :
               LET size == CanonicalSize(normalized[i].product_name)
               IN  /\ normalized[i].unit_value = size.value
                   /\ normalized[i].unit = size.unit
    /\ norm_pc = "scraped" =>
           \A i \in 1..Len(products) :
               LET size == CanonicalSize(products[i].product_name)
               IN  /\ products[i].volume_value = size.value
                   /\ products[i].volume_unit = size.unit

----------------------------------------------------------------------------
(* ml_price_predictor.PricePredictor.  Prices are in thousandths, factors   *)
(* (trend, seasonality, volatility, price change) in thousandths too.       *)

\* most calls on a predictor
MaxPredCalls == 3

\* len(self.historical_data) < 10
MinTrainingRows == 10

RECURSIVE SumOf(_)
SumOf(numbers) == IF numbers = <<>> THEN 0 ELSE Head(numbers) + SumOf(Tail(numbers))

\* a table of one product, a record every 30 days, with the given prices
PriceHistory(product_name, category, prices) ==
    [rows |-> [i \in 1..Len(prices) |->
                  [product_name |-> product_name, category |-> category,
                   price |-> prices[i], timestamp |-> 30 * (i - 1)]]]

\* the same without a category column
Uncategorized(table) ==
    [rows |-> [i \in 1..Len(table.rows) |->
                  [f \in (DOMAIN table.rows[i]) \ {"category"} |-> table.rows[i][f]]]]

\* 12 records whose price falls from 100.00 to 40.00
FallingPrices ==
    <<100000, 100000, 100000, 100000, 100000, 100000,
      40000, 40000, 40000, 40000, 40000, 40000>>

\* 10 records of one price
FlatPrices ==
    <<50000, 50000, 50000, 50000, 50000, 50000, 50000, 50000, 50000, 50000>>

\* the historical tables: too short, falling, flat, and one without categories
HistoryPool ==
    { PriceHistory("rice", "food", <<10010, 10010, 10010>>),
      PriceHistory("rice", "food", FallingPrices),
      PriceHistory("gum", "snacks", FlatPrices),
      Uncategorized(PriceHistory("gum", "snacks", FlatPrices)) }

\* the same without a price column
Unpriced(table) ==
    [rows |-> [i \in 1..Len(table.rows) |->
                  [f \in (DOMAIN table.rows[i]) \ {"price"} |-> table.rows[i][f]]]]

\* 12 records of two categories, the two oldest of 'spices', without prices
UnpricedHistory ==
    Unpriced([rows |-> [i \in 1..12 |->
                 [product_name |-> IF i <= 2 THEN "salt" ELSE "rice",
                  category |-> IF i <= 2 THEN "spices" ELSE "food",
                  price |-> 50000, timestamp |-> 30 * (i - 1)]]])

\* the tables passed to train
TrainPool == HistoryPool \cup {UnpricedHistory}

\* the tables of current products: two products, and the historical tables
ProductsPool ==
    { [rows |-> << [product_name |-> "rice", category |-> "food", price |-> 10010,
                    timestamp |-> 360],
                   [product_name |-> "tea", category |-> "beverages", price |-> 20000,
                    timestamp |-> 360] >>] }
    \cup HistoryPool

DaysAheadPool == {30, 60}

\* the month of the day the prediction is for
MonthPool == {1, 7}

\* np.random.normal(0, volatility * 0.1)
NormalPool == {0 - 900, 0, 60}

\* 1 / (1 + exp(-5 cv)) for a coefficient of variation cv > 0: above 0.5, below 1
SigmoidPool == {600, 900}

\* timestamp.dt.month, for days counted from the first of January
Month(day) == ((day \div 30) % 12) + 1

\* the prices of the rows of one category, in the order of the timestamps
\* (_prepare_data sorts; the tables are in that order)
CategoryPrices(table, category) ==
    LET category_data == CategoryGroup(table.rows, category)
    IN  [i \in 1..Len(category_data) |-> category_data[i].price]

\* _calculate_trend_factor
calculate_trend_factor(prices) ==
    IF Len(prices) < 5 THEN 0
    ELSE LET split_point == Len(prices) \div 2
             older == SubSeq(prices, 1, split_point)
             recent == SubSeq(prices, split_point + 1, Len(prices))
         IN  IF SumOf(older) = 0 THEN 0
             ELSE Max(Min((SumOf(recent) * Len(older) * 1000)
                              \div (SumOf(older) * Len(recent)) - 1000,
                          1000),
                      0 - 1000)

\* _detect_seasonality: month -> factor
detect_seasonality(category_data) ==
    [month \in 1..12 |->
        LET in_month == Filter(category_data, LAMBDA row : Month(row.timestamp) = month)
            monthly == [i \in 1..Len(in_month) |-> in_month[i].price]
            overall == [i \in 1..Len(category_data) |-> category_data[i].price]
        IN  IF Len(category_data) < 12 \/ Len(in_month) = 0 \/ SumOf(overall) = 0 THEN 1000
            ELSE (SumOf(monthly) * Len(overall) * 1000) \div (Len(monthly) * SumOf(overall))]

\* _calculate_volatility: the values it can return
Volatilities(prices) ==
    IF Len(prices) < 3 \/ SumOf(prices) = 0 THEN {500}
    ELSE IF \A i \in 1..Len(prices) : prices[i] = prices[1] THEN {500}
    ELSE SigmoidPool

\* the weights train can learn from the table: one entry per category
Trainings(data) ==
    LET categories == {data.rows[i].category : i \in 1..Len(data.rows)}
        volatilities ==
            {v \in [categories -> SigmoidPool \cup {500}] :
                \A c \in categories : v[c] \in Volatilities(CategoryPrices(data, c))}
    IN  {[c \in categories |->
            [trend_factor |-> calculate_trend_factor(CategoryPrices(data, c)),
             seasonality |-> detect_seasonality(CategoryGroup(data.rows, c)),
             category_volatility |-> v[c]]] : v \in volatilities}

\* what a category of fewer than 3 records gets, its prices never read
DefaultWeights ==
    [trend_factor |-> 0, seasonality |-> [month \in 1..12 |-> 1000],
     category_volatility |-> 500]

\* grouped_data['category'].unique(): the position of a category's first row
FirstRow(data, category) ==
    CHOOSE i \in 1..Len(data.rows) :
        /\ data.rows[i].category = category
        /\ \A j \in 1..(i - 1) : data.rows[j].category # category

\* the categories whose parameters cannot be computed: 3 records or more (the
\* volatility, the trend from 5 on, read the prices) and no price column
FailingCategories(data) ==
    {c \in {data.rows[i].category : i \in 1..Len(data.rows)} :
        /\ Len(CategoryGroup(data.rows, c)) >= 3
        /\ \E i \in 1..Len(data.rows) : "price" \notin DOMAIN data.rows[i]}

\* the weights written before the loop over the categories raises
WrittenBeforeError(data) ==
    LET failing == FailingCategories(data)
        first == CHOOSE c \in failing :
                     \A d \in failing : FirstRow(data, c) <= FirstRow(data, d)
    IN  [c \in {d \in {data.rows[i].category : i \in 1..Len(data.rows)} :
                   FirstRow(data, d) < FirstRow(data, first)} |-> DefaultWeights]

\* self.model_weights[category] = ...: entries of other categories stay
Merged(weights, learned) ==
    [c \in (DOMAIN weights) \cup (DOMAIN learned) |->
        IF c \in DOMAIN learned THEN learned[c] ELSE weights[c]]

\* faulty variant of TrainOutcomes: is_trained is set to what train returns
TrainOutcomesResetting(data) ==
    IF data = None \/ Len(data.rows) < MinTrainingRows
    THEN {[returned |-> FALSE, is_trained |-> FALSE, model_weights |-> model_weights]}
    ELSE IF \E i \in 1..Len(data.rows) : "category" \notin DOMAIN data.rows[i]
    THEN {[returned |-> FALSE, is_trained |-> FALSE, model_weights |-> model_weights]}
    ELSE IF FailingCategories(data) # {}
    THEN {[returned |-> FALSE, is_trained |-> FALSE,
           model_weights |-> Merged(model_weights, WrittenBeforeError(data))]}
    ELSE {[returned |-> TRUE, is_trained |-> TRUE,
           model_weights |-> Merged(model_weights, learned)] : learned \in Trainings(data)}

\* what train comes to on self.historical_data = data: insufficient data, an
\* exception (no category column, or no price column once some categories are
\* done), or the learned weights
TrainOutcomes(data) ==
    IF data = None \/ Len(data.rows) < MinTrainingRows
    THEN {[returned |-> FALSE, is_trained |-> is_trained, model_weights |-> model_weights]}
    ELSE IF \E i \in 1..Len(data.rows) : "category" \notin DOMAIN data.rows[i]
    THEN {[returned |-> FALSE, is_trained |-> is_trained, model_weights |-> model_weights]}
    ELSE IF FailingCategories(data) # {}
    THEN {[returned |-> FALSE, is_trained |-> is_trained,
           model_weights |-> Merged(model_weights, WrittenBeforeError(data))]}
    ELSE {[returned |-> TRUE, is_trained |-> TRUE,
           model_weights |-> Merged(model_weights, learned)] : learned \in Trainings(data)}

\* faulty variant of StoredData: df is not stored
StoredDataKept(override) == historical_data

\* if df is not None: self.historical_data = df
StoredData(override) == IF override # None THEN override ELSE historical_data

\* train(df): its argument is None or a table
train(override) ==
    /\ pred_calls < MaxPredCalls
    /\ pred_calls' = pred_calls + 1
    /\ LET data == StoredData(override)
       IN  /\ historical_data' = data
           /\ \E outcome \in TrainOutcomes(data) :
                  /\ is_trained' = outcome.is_trained
                  /\ model_weights' = outcome.model_weights
                  /\ last_pred' = [op |-> "train", df |-> override, was_trained |-> is_trained,
                                   history_before |-> historical_data,
                                   weights_before |-> model_weights,
                                   returned |-> outcome.returned]
    /\ UNCHANGED <<dedup_vars, reco_vars, ledger_vars, norm_vars, more_vars>>

\* round(x, 2) of x millionths, in thousandths: the nearest hundredth; on a tie
\* of the decimal value, the neighbour the binary float happens to be nearer to
round_2(millionths) ==
    LET q == millionths \div 10000
        r == millionths % 10000
    IN  IF 2 * r < 10000 THEN {10 * q}
        ELSE IF 2 * r > 10000 THEN {10 * (q + 1)}
        ELSE {10 * q, 10 * (q + 1)}

\* max(current_price * (1 + price_change), current_price * 0.5), in millionths
FlooredPrice(current_price, price_change) ==
    Max(current_price * (1000 + price_change), current_price * 500)

RECURSIVE TotalTrend(_, _)
\* the sum of the trend factors of the categories
TotalTrend(weights, categories) ==
    IF categories = {} THEN 0
    ELSE LET c == CHOOSE d \in categories : TRUE
         IN  weights[c].trend_factor + TotalTrend(weights, categories \ {c})

\* the rows the loop of predict_prices can make of one product
PredictedRows(product, weights, history_len, days_ahead, future_month, normal) ==
    LET known == "category" \in DOMAIN product /\ product.category \in DOMAIN weights
        avg_trend ==
            IF known THEN weights[product.category].trend_factor
            ELSE TotalTrend(weights, DOMAIN weights) \div Cardinality(DOMAIN weights)
        seasonality == IF known THEN weights[product.category].seasonality[future_month] ELSE 1000
        volatility == IF known THEN weights[product.category].category_volatility ELSE 500
        price_change ==
            (avg_trend * days_ahead * seasonality) \div (30 * 1000)
            + (IF volatility > 0 THEN normal ELSE 0)
        confidence == Max(300, Min(900, 700 - (volatility \div 2) + history_len))
    IN  {[f \in (DOMAIN product) \cup {"predicted_price", "price_trend", "confidence"} |->
            CASE f = "predicted_price" -> predicted_price
              [] f = "price_trend" ->
                    IF price_change > 50 THEN "Rising"
                    ELSE IF price_change < 0 - 50 THEN "Falling"
                    ELSE "Stable"
              [] f = "confidence" -> 10 * intr(confidence, 10)
              [] OTHER -> product[f]] :
         predicted_price \in round_2(FlooredPrice(product.price, price_change))}

RECURSIVE PredictedTables(_, _, _, _, _, _)
\* the tables predict_prices can return for the rows, given the draws of the
\* random term
PredictedTables(rows, weights, history_len, days_ahead, future_month, draws) ==
    IF rows = <<>> THEN {<<>>}
    ELSE {<<first>> \o rest :
            first \in PredictedRows(Head(rows), weights, history_len, days_ahead,
                                    future_month, Head(draws)),
            rest \in PredictedTables(Tail(rows), weights, history_len, days_ahead,
                                     future_month, Tail(draws))}

\* the draws of the random term for n rows: the first or the last row may
\* draw a value other than 0
NormalDraws(n) ==
    {[i \in 1..n |-> IF i = k THEN normal ELSE 0] : k \in {1, n}, normal \in NormalPool}

predict_prices(products_df, days_ahead, future_month) ==
    /\ pred_calls < MaxPredCalls
    /\ pred_calls' = pred_calls + 1
    /\ \E outcome \in (IF is_trained
                      THEN {[returned |-> TRUE, is_trained |-> TRUE,
                             model_weights |-> model_weights]}
                      ELSE TrainOutcomes(products_df)) :
       \E draws \in NormalDraws(Len(products_df.rows)) :
           LET Call(returned) ==
                   [op |-> "predict_prices", products_df |-> products_df,
                    was_trained |-> is_trained, history_before |-> historical_data,
                    returned |-> returned]
           IN  /\ historical_data' = IF is_trained THEN historical_data ELSE products_df
               /\ is_trained' = outcome.is_trained
               /\ model_weights' = outcome.model_weights
               /\ IF ~outcome.is_trained
                  THEN last_pred' = Call(products_df)
                  ELSE \E table \in PredictedTables(products_df.rows, outcome.model_weights,
                                                    Len(historical_data'.rows), days_ahead,
                                                    future_month, draws) :
                           last_pred' = Call([rows |-> table])
    /\ UNCHANGED <<dedup_vars, reco_vars, ledger_vars, norm_vars, more_vars>>

\* detect_price_anomalies: it returns its argument when the predictor is
\* untrained or without data, a table with anomaly columns otherwise
detect_price_anomalies(products_df) ==
    /\ pred_calls < MaxPredCalls
    /\ pred_calls' = pred_calls + 1
    /\ last_pred' = [op |-> "detect_price_anomalies", products_df |-> products_df,
                     was_trained |-> is_trained, history_before |-> historical_data,
                     returned |-> IF ~is_trained \/ historical_data = None
                                  THEN "products_df" ELSE "result_df"]
    /\ UNCHANGED <<historical_data, is_trained, model_weights,
                   dedup_vars, reco_vars, ledger_vars, norm_vars, more_vars>>

InitPredict ==
    /\ historical_data \in {None} \cup HistoryPool
    /\ is_trained = FALSE
    /\ model_weights = <<>>
    /\ pred_calls = 0
    /\ last_pred = [op |-> "none"]
    /\ DedupIdle
    /\ RecoIdle
    /\ LedgerIdle
    /\ NormIdle
    /\ MoreIdle

NextPredict ==
    \/ \E override \in {None} \cup TrainPool : train(override)
    \/ \E products_df \in ProductsPool : \E days_ahead \in DaysAheadPool :
       \E future_month \in MonthPool :
            predict_prices(products_df, days_ahead, future_month)
    \/ \E products_df \in ProductsPool : detect_price_anomalies(products_df)

SpecPredict == InitPredict /\ [][NextPredict]_vars

----------------------------------------------------------------------------
(* Price prediction: properties *)

\* C16: over any sequence of train, predict_prices and detect_price_anomalies
\* calls, is_trained never changes from True back to False.
C16_TrainedStaysTrained == [][is_trained => is_trained']_vars

\* a trained predictor on which a training has failed
C16_Witness ==
    /\ is_trained
    /\ last_pred.op = "train"
    /\ last_pred.was_trained
    /\ ~last_pred.returned

\* C17 as stated: predict_prices on an untrained predictor reports failure
\* (returns its input, the instance staying untrained) exactly when the
\* instance's historical data has fewer than 10 records.
C17_FailsExactlyOnShortHistory ==
    (last_pred.op = "predict_prices" /\ ~last_pred.was_trained) =>
        LET failed == last_pred.returned = last_pred.products_df /\ ~is_trained
            short == \/ last_pred.history_before = None
                     \/ Len(last_pred.history_before.rows) < MinTrainingRows
        IN  failed <=> short

\* C18 as stated: in every row of a table of predictions, predicted_price is at
\* least half the current price.
C18_PredictedAtLeastHalfPrice ==
    (last_pred.op = "predict_prices" /\ is_trained) =>
        \A i \in 1..Len(last_pred.returned.rows) :
            2 * last_pred.returned.rows[i].predicted_price
                >= last_pred.returned.rows[i].price

----------------------------------------------------------------------------
(* Floating-point columns: a finite value is a fraction [num, den] with     *)
(* den > 0; a division by zero gives inf, -inf or NaN and raises nothing.    *)

RECURSIVE GCD(_, _)
GCD(a, b) == IF b = 0 THEN a ELSE GCD(b, a % b)

\* n / d in lowest terms
Ratio(n, d) ==
    LET g == GCD(IF n < 0 THEN 0 - n ELSE n, d)
    IN  [num |-> n \div g, den |-> d \div g]

PlusInf == [inf |-> 1]

MinusInf == [inf |-> 0 - 1]

IsFinite(x) == "den" \in DOMAIN x

IsInf(x) == "inf" \in DOMAIN x

\* Series / Series on float columns
float_div(x, y) ==
    IF y.num > 0 THEN Ratio(x.num * y.den, x.den * y.num)
    ELSE IF y.num < 0 THEN Ratio(0 - x.num * y.den, 0 - x.den * y.num)
    ELSE IF x.num > 0 THEN PlusInf
    ELSE IF x.num < 0 THEN MinusInf
    ELSE NaN

\* x * (n / d) for a constant n / d, d > 0, n # 0
float_scale(x, n, d) ==
    IF IsFinite(x) THEN Ratio(x.num * n, x.den * d)
    ELSE IF IsInf(x) THEN (IF n > 0 THEN x ELSE [inf |-> 0 - x.inf])
    ELSE NaN

float_add(x, y) ==
    IF x = NaN \/ y = NaN THEN NaN
    ELSE IF IsInf(x) /\ IsInf(y) THEN (IF x = y THEN x ELSE NaN)
    ELSE IF IsInf(x) THEN x
    ELSE IF IsInf(y) THEN y
    ELSE Ratio(x.num * y.den + y.num * x.den, x.den * y.den)

float_sub(x, y) == float_add(x, float_scale(y, 0 - 1, 1))

\* x >= y on floats that are not NaN
float_ge(x, y) ==
    IF IsInf(x) THEN x.inf = 1 \/ y = x
    ELSE IF IsInf(y) THEN y.inf = 0 - 1
    ELSE x.num * y.den >= y.num * x.den

RECURSIVE DescendingFrom(_, _, _)
\* sort_values(column, ascending=False): every descending order of the rows at
\* the given positions, NaN last (the order of equal values is the sort's)
DescendingFrom(table, positions, column) ==
    IF positions = {} THEN {<<>>}
    ELSE UNION {
            {<<table[p]>> \o rest : rest \in DescendingFrom(table, positions \ {p}, column)} :
            p \in {q \in positions :
                     \A m \in positions :
                        \/ table[m][column] = NaN
                        \/ /\ table[q][column] # NaN
                           /\ float_ge(table[q][column], table[m][column])} }

----------------------------------------------------------------------------
(* Week-over-week trends: the tab_trending block of src/app.py and           *)
(* recommendation_engine.get_trending_recommendations                        *)

\* most entries of the ledger the trends are computed from
MaxTrendRows == 3

\* datetime.now() when the trends are computed, in days
TrendDay == 20

\* the ledger entries: two products, prices and view counts that are 0 or
\* not, timestamped in the current or in the previous week
TrendRowPool ==
    {[product_name |-> name, category |-> "food", source |-> "jumia",
      price |-> price, view_count |-> view_count, rating |-> 3,
      review_count |-> view_count \div 50, timestamp |-> IsoText(day)] :
        name \in {"milk", "rice"}, price \in {0, 100}, view_count \in {0, 500},
        day \in {TrendDay - 3, TrendDay - 10}}

\* top_n of get_trending_recommendations
TrendTopNPool == {1, 5}

\* the sum of a column over the rows
RECURSIVE ColumnSum(_, _)
ColumnSum(rows, column) ==
    IF rows = <<>> THEN 0 ELSE Head(rows)[column] + ColumnSum(Tail(rows), column)

\* groupby(keys)[column].mean() of one group
Mean(rows, column) == Ratio(ColumnSum(rows, column), Len(rows))

\* the key values of groupby(keys), as records
GroupKeys(table, keys) == {[k \in keys |-> table[i][k]] : i \in 1..Len(table)}

\* the rows of one group
GroupRows(table, key) ==
    Filter(table, LAMBDA row : \A k \in DOMAIN key : row[k] = key[k])

\* (change / previous) * 100
PercentChange(change, previous) == float_scale(float_div(change, previous), 100, 1)

\* one row of trending_df: the merged averages of a product and its changes
TrendingRow(key, current_week, previous_week) ==
    LET price_current == Mean(GroupRows(current_week, key), "price")
        price_previous == Mean(GroupRows(previous_week, key), "price")
        view_count_current == Mean(GroupRows(current_week, key), "view_count")
        view_count_previous == Mean(GroupRows(previous_week, key), "view_count")
        price_change == float_sub(price_current, price_previous)
        view_count_change == float_sub(view_count_current, view_count_previous)
    IN  [product_name |-> key.product_name, category |-> key.category,
         source |-> key.source,
         price_current |-> price_current, price_previous |-> price_previous,
         view_count_current |-> view_count_current,
         view_count_previous |-> view_count_previous,
         price_change |-> price_change,
         price_change_percent |-> PercentChange(price_change, price_previous),
         view_count_change |-> view_count_change,
         view_count_change_percent |->
             PercentChange(view_count_change, view_count_previous)]

\* any enumeration of a finite set
Enumerations(S) ==
    {f \in [1..Cardinality(S) -> S] : \A x \in S : \E i \in DOMAIN f : f[i] = x}

\* the rows of the ledger in the current and in the previous week
CurrentWeek(historical_df) ==
    Filter(historical_df, LAMBDA row :
        \E d \in row.timestamp : d >= now - 7 /\ d <= now)

PreviousWeek(historical_df) ==
    Filter(historical_df, LAMBDA row :
        \E d \in row.timestamp : d >= now - 14 /\ d < now - 7)

\* the tab "Trending Products" of the dashboard
tab_trending ==
    /\ trend_call.op = "none"
    /\ LET historical_df == ReadCsv(historical_file.rows)
           current_week == CurrentWeek(historical_df)
           previous_week == PreviousWeek(historical_df)
           keys == {"product_name", "category", "source"}
           merged_keys == GroupKeys(current_week, keys) \cap GroupKeys(previous_week, keys)
       IN  IF ~historical_file.exists
           THEN /\ trending_df' = <<>>
                /\ trend_call' = [op |-> "tab_trending", shown |-> "no historical data"]
           ELSE IF current_week = <<>> \/ previous_week = <<>>
           THEN /\ trending_df' = <<>>
                /\ trend_call' = [op |-> "tab_trending", shown |-> "not enough data"]
           ELSE LET merged == CHOOSE f \in Enumerations(merged_keys) : TRUE
                    rows == [i \in DOMAIN merged |->
                                TrendingRow(merged[i], current_week, previous_week)]
                IN  /\ trending_df' \in
                           DescendingFrom(rows, DOMAIN rows, "view_count_change_percent")
                    /\ trend_call' = [op |-> "tab_trending", shown |-> "table"]
    /\ UNCHANGED <<dedup_vars, reco_vars, ledger_vars, norm_vars, pred_vars, sched_vars,
                   writer_vars, page_vars, merge_vars>>

\* one row of merged: the aggregates of a product now and before, and its changes
MergedRow(key, current, previous) ==
    LET now_rows == GroupRows(current, key)
        old_rows == GroupRows(previous, key)
        known == old_rows # <<>>
        price_current == Mean(now_rows, "price")
        price_previous == IF known THEN Mean(old_rows, "price") ELSE price_current
        rating_current == Mean(now_rows, "rating")
        rating_previous == IF known THEN Mean(old_rows, "rating") ELSE Ratio(0, 1)
        review_count_current == ColumnSum(now_rows, "review_count")
        review_count_previous == IF known THEN ColumnSum(old_rows, "review_count") ELSE 0
        price_change == float_sub(price_current, price_previous)
        price_change_pct == PercentChange(price_change, price_previous)
        rating_change == float_sub(rating_current, rating_previous)
        review_growth_pct ==
            IF review_count_previous > 0
            THEN Ratio((review_count_current - review_count_previous) * 100,
                       Max(1, review_count_previous))
            ELSE Ratio(0, 1)
        site_count_current == Cardinality({now_rows[i].source : i \in DOMAIN now_rows})
        site_count_previous == Cardinality({old_rows[i].source : i \in DOMAIN old_rows})
        trending_score ==
            float_sub(
                float_add(float_add(float_scale(review_growth_pct, 6, 10),
                                    float_scale(rating_change, 20, 1)),
                          Ratio((site_count_current - site_count_previous) * 15, 1)),
                float_scale(price_change_pct, 5, 100))
    IN  [product_name |-> key.product_name, category |-> key.category,
         price |-> price_current, rating |-> rating_current,
         review_count |-> review_count_current,
         price_change_pct |-> price_change_pct,
         review_growth_pct |-> review_growth_pct,
         rating_change |-> rating_change,
         site_count |-> site_count_current,
         trending_score |-> trending_score]

RECURSIVE TrendingFrames(_, _, _)
\* groupby('category').apply(sort by trending_score, head(top_n)): the frames
\* of the categories in their sorted order
TrendingFrames(merged, categories, n) ==
    IF categories = <<>> THEN {<<>>}
    ELSE LET group == CategoryGroup(merged, Head(categories))
         IN  {head(sorted, n) \o rest :
                 sorted \in DescendingFrom(group, DOMAIN group, "trending_score"),
                 rest \in TrendingFrames(merged, Tail(categories), n)}

\* get_trending_recommendations(current_df, previous_df, top_n), for the
\* current and the previous week of the ledger
get_trending_recommendations(n) ==
    /\ trend_call.op = "none"
    /\ LET historical_df == ReadCsv(historical_file.rows)
           current == CurrentWeek(historical_df)
           previous == PreviousWeek(historical_df)
           keys == GroupKeys(current, {"product_name", "category"})
           order == CHOOSE f \in Enumerations(keys) : TRUE
           merged == [i \in DOMAIN order |-> MergedRow(order[i], current, previous)]
       IN  IF current = <<>> \/ previous = <<>>
           THEN /\ trending_df' = <<>>
                /\ trend_call' = [op |-> "get_trending_recommendations",
                                  shown |-> "empty"]
           ELSE /\ trending_df' \in TrendingFrames(merged, <<"food">>, n)
                /\ trend_call' = [op |-> "get_trending_recommendations",
                                  shown |-> "table"]
    /\ UNCHANGED <<dedup_vars, reco_vars, ledger_vars, norm_vars, pred_vars, sched_vars,
                   writer_vars, page_vars, merge_vars>>

\* the ledger files the trends are computed from
TrendLedgers ==
    {NoFile} \cup
    {[exists |-> TRUE, rows |-> rows] :
        rows \in UNION {[1..n -> TrendRowPool] : n \in 0..MaxTrendRows}}

InitTrend ==
    /\ historical_file \in TrendLedgers
    /\ processed_file = NoFile
    /\ sample_file = NoFile
    /\ now = TrendDay
    /\ ticks = 0
    /\ calls = 0
    /\ last_call = [op |-> "idle"]
    /\ trending_df = <<>>
    /\ trend_call = [op |-> "none"]
    /\ DedupIdle
    /\ RecoIdle
    /\ NormIdle
    /\ PredIdle
    /\ SchedIdle
    /\ WritersIdle
    /\ PageIdle
    /\ MergeIdle

NextTrend ==
    \/ tab_trending
    \/ \E n \in TrendTopNPool : get_trending_recommendations(n)

SpecTrend == InitTrend /\ [][NextTrend]_vars

----------------------------------------------------------------------------
(* Trends: properties *)

\* C21 as stated: no percentage delta of a computed trend table is infinite:
\* where the previous-period average is 0 the delta is undefined (NaN) or the
\* product is not in the table.
C21_NoInfiniteDelta ==
    trend_call.op \in {"tab_trending", "get_trending_recommendations"} =>
        \A i \in 1..Len(trending_df) :
            \A column \in {"price_change_percent", "view_count_change_percent",
                            "price_change_pct", "review_growth_pct"} \cap
                           DOMAIN trending_df[i] :
                ~IsInf(trending_df[i][column])

----------------------------------------------------------------------------
(* trigger_data_refresh (src/app.py) and the scheduler (src/utils/scheduler.py). *)
(* A thread is at one position of its code; one step of one thread is one        *)
(* action.  Thread 0 runs the dashboard script, the others scrape_on_schedule.   *)

\* the schedule types the selectbox passes: one with an interval, one without
ScheduleTypes == {"Hourly", "Real-time"}

HasInterval(type) == type \in {"Hourly", "Daily", "Weekly"}

\* Thread.is_alive()
Alive(t) == t # 0 /\ threads[t].pc \notin {"unborn", "dead"}

\* between the assignment of is_scraping = True and its reset
RunPositions == {"collect", "process", "save", "reset"}

\* the parts of a run that last: the requests, the processing, the writes
LongPositions == {"collect", "process", "save"}

\* where a thread goes on when trigger_data_refresh returns or raises: the
\* script ends, scrape_on_schedule logs and waits
Return(t) == IF t = 0 THEN "idle" ELSE "wait"

At(t, position, outcome) ==
    [threads EXCEPT ![t] = [pc |-> position, outcome |-> outcome]]

other_vars ==
    <<dedup_vars, reco_vars, ledger_vars, norm_vars, pred_vars, trend_vars, writer_vars,
      page_vars, merge_vars>>

\* a click on "Refresh Data"
click_refresh ==
    /\ threads[0].pc = "idle"
    /\ threads' = At(0, "check", "")
    /\ UNCHANGED <<is_scraping, stop_flag, schedule_thread, scheduled_task,
                   schedule_type, other_vars>>

\* if st.session_state.is_scraping: ... return
refresh_check(t) ==
    /\ threads[t].pc = "check"
    /\ threads' = IF is_scraping THEN At(t, Return(t), "already in progress")
                  ELSE At(t, "set", "")
    /\ UNCHANGED <<is_scraping, stop_flag, schedule_thread, scheduled_task,
                   schedule_type, other_vars>>

\* st.session_state.is_scraping = True
refresh_set(t) ==
    /\ threads[t].pc = "set"
    /\ is_scraping' = TRUE
    /\ threads' = At(t, "collect", "")
    /\ UNCHANGED <<stop_flag, schedule_thread, scheduled_task, schedule_type, other_vars>>

\* the scrapers are built and run; raised: a constructor raises (a failing
\* scrape_data is caught and reported)
collect(t, raised) ==
    /\ threads[t].pc = "collect"
    /\ threads' = IF raised THEN At(t, Return(t), "raised") ELSE At(t, "process", "")
    /\ UNCHANGED <<is_scraping, stop_flag, schedule_thread, scheduled_task,
                   schedule_type, other_vars>>

\* processor = DataProcessor(); processed_data = processor.process_data(...);
\* raised: the constructor raises (a failing process_data returns an empty table)
process(t, raised) ==
    /\ threads[t].pc = "process"
    /\ threads' = IF raised THEN At(t, Return(t), "raised") ELSE At(t, "save", "")
    /\ UNCHANGED <<is_scraping, stop_flag, schedule_thread, scheduled_task,
                   schedule_type, other_vars>>

\* processor.save_data(processed_data): its result is not looked at
save(t, saved) ==
    /\ threads[t].pc = "save"
    /\ threads' = At(t, "reset", IF saved THEN "saved" ELSE "not saved")
    /\ UNCHANGED <<is_scraping, stop_flag, schedule_thread, scheduled_task,
                   schedule_type, other_vars>>

\* st.session_state.is_scraping = False
refresh_reset(t) ==
    /\ threads[t].pc = "reset"
    /\ is_scraping' = FALSE
    /\ threads' = At(t, Return(t), threads[t].outcome)
    /\ UNCHANGED <<stop_flag, schedule_thread, scheduled_task, schedule_type, other_vars>>

\* while not stop_flag.is_set(): ... scrape_function()
scrape_on_schedule(t) ==
    /\ t # 0
    /\ threads[t].pc = "while"
    /\ threads' = IF stop_flag THEN At(t, "dead", threads[t].outcome)
                  ELSE At(t, "check", "")
    /\ UNCHANGED <<is_scraping, stop_flag, schedule_thread, scheduled_task,
                   schedule_type, other_vars>>

\* stop_flag.wait(interval_seconds) returns: the flag is set or the time is up
stop_flag_wait(t) ==
    /\ t # 0
    /\ threads[t].pc = "wait"
    /\ threads' = At(t, "while", threads[t].outcome)
    /\ UNCHANGED <<is_scraping, stop_flag, schedule_thread, scheduled_task,
                   schedule_type, other_vars>>

\* schedule_scraping is called: if schedule_thread and schedule_thread.is_alive():
\* stop_flag.set()
schedule_scraping(type) ==
    /\ threads[0].pc = "idle"
    /\ HasInterval(type) => \E t \in Threads : threads[t].pc = "unborn"
    /\ schedule_type' = type
    /\ IF Alive(schedule_thread)
       THEN /\ stop_flag' = TRUE
            /\ threads' = At(0, "join", threads[0].outcome)
       ELSE /\ stop_flag' = stop_flag
            /\ threads' = At(0, "clear", threads[0].outcome)
    /\ UNCHANGED <<is_scraping, schedule_thread, scheduled_task, other_vars>>

\* schedule_thread.join(timeout=5) returns: the thread has ended, or
\* (timed_out) 5 seconds have passed while it is in a part of a run that lasts
join(timed_out) ==
    /\ threads[0].pc = "join"
    /\ IF timed_out THEN threads[schedule_thread].pc \in LongPositions
       ELSE ~Alive(schedule_thread)
    /\ threads' = At(0, "clear", threads[0].outcome)
    /\ UNCHANGED <<is_scraping, stop_flag, schedule_thread, scheduled_task,
                   schedule_type, other_vars>>

\* stop_flag.clear()
stop_flag_clear ==
    /\ threads[0].pc = "clear"
    /\ stop_flag' = FALSE
    /\ threads' = At(0, "start", threads[0].outcome)
    /\ UNCHANGED <<is_scraping, schedule_thread, scheduled_task, schedule_type, other_vars>>

\* the interval is looked up: return for a type without one, else
\* schedule_thread = threading.Thread(...); schedule_thread.start()
thread_start ==
    /\ threads[0].pc = "start"
    /\ IF HasInterval(schedule_type)
       THEN LET new == CHOOSE t \in Threads :
                            /\ threads[t].pc = "unborn"
                            /\ \A u \in Threads : threads[u].pc = "unborn" => t <= u
            IN  /\ scheduled_task' = schedule_type
                /\ schedule_thread' = new
                /\ threads' = [threads EXCEPT ![0].pc = "idle", ![new].pc = "while"]
       ELSE /\ threads' = At(0, "idle", threads[0].outcome)
            /\ UNCHANGED <<scheduled_task, schedule_thread>>
    /\ UNCHANGED <<is_scraping, stop_flag, schedule_type, other_vars>>

InitRefresh ==
    /\ SchedIdle
    /\ TrendIdle
    /\ WritersIdle
    /\ PageIdle
    /\ MergeIdle
    /\ DedupIdle
    /\ RecoIdle
    /\ LedgerIdle
    /\ NormIdle
    /\ PredIdle

NextRefresh ==
    \/ click_refresh
    \/ \E t \in Threads : refresh_check(t)
    \/ \E t \in Threads : refresh_set(t)
    \/ \E t \in Threads : \E raised \in BOOLEAN : collect(t, raised)
    \/ \E t \in Threads : \E raised \in BOOLEAN : process(t, raised)
    \/ \E t \in Threads : \E saved \in BOOLEAN : save(t, saved)
    \/ \E t \in Threads : refresh_reset(t)
    \/ \E t \in Threads : scrape_on_schedule(t)
    \/ \E t \in Threads : stop_flag_wait(t)
    \/ \E type \in ScheduleTypes : schedule_scraping(type)
    \/ \E timed_out \in BOOLEAN : join(timed_out)
    \/ stop_flag_clear
    \/ thread_start

SpecRefresh == InitRefresh /\ [][NextRefresh]_vars

----------------------------------------------------------------------------
(* Refresh and scheduling: properties *)

Running == {t \in Threads : threads[t].pc \in RunPositions}

\* C22 as stated: at any time at most one run of collect -> process_data ->
\* save_data is in progress, whoever started it.
C22_AtMostOneRun == Cardinality(Running) <= 1

\* C24 as stated: once schedule_scraping has returned, at most one scheduling
\* thread is alive, and none after a call with a type that has no interval.
C24_AtMostOneSchedulingThread ==
    (threads[0].pc \notin {"join", "clear", "start"} /\ schedule_type # "") =>
        LET alive == {t \in Threads : Alive(t)}
        IN  /\ Cardinality(alive) <= 1
            /\ ~HasInterval(schedule_type) => alive = {}

\* C30 as stated: when no trigger_data_refresh is between setting the flag
\* and resetting it, whether the runs that set it returned or raised, the flag
\* is False.
C30_FlagResetAfterEveryRun == (Running = {}) => ~is_scraping

----------------------------------------------------------------------------
(* Two runs in DataProcessor.update_historical_data at once: each tests for   *)
(* the file, reads it, and writes the whole file; a step of a run is an action *)

\* the batches of the two runs: in the window, of one or two records
WriterBatches ==
    {batch \in Batches : Len(batch.rows) > 0 /\ batch.stamp.kind \in {"none", "str"}}

\* the ledger before the runs: no file, or a file with an entry of yesterday
PriorLedgers ==
    { NoFile,
      [exists |-> TRUE,
       rows |-> <<[product_name |-> "rice", source |-> "jiji",
                   timestamp |-> IsoText(StartDay - 1)]>>] }

\* the tables a run writes for the ledger it has read: the concatenation,
\* sorted, cut at cutoff_date
Rewritten(historical_df, new_data) ==
    LET combined_df == historical_df \o new_data
        cutoff_date == now - RetentionDays
        staying == {i \in 1..Len(combined_df) : InWindow(combined_df[i], cutoff_date)}
    IN  NewestFirstFrom(combined_df, staying)

apart_vars ==
    <<processed_file, sample_file, now, ticks, calls, last_call, prior_file,
      dedup_vars, reco_vars, norm_vars, pred_vars, trend_vars, sched_vars, page_vars,
      merge_vars>>

\* update_historical_data(new_data) is entered: the timestamp column is added
\* or converted
update_begin(w, batch) ==
    /\ writers[w].pc = "idle"
    /\ writers' = [writers EXCEPT ![w].pc = "exists", ![w].new_data = WithTimestamps(batch)]
    /\ UNCHANGED <<historical_file, apart_vars>>

\* if os.path.exists(self.historical_file)
path_exists(w) ==
    /\ writers[w].pc = "exists"
    /\ writers' = [writers EXCEPT ![w].pc = IF historical_file.exists THEN "read" ELSE "create"]
    /\ UNCHANGED <<historical_file, apart_vars>>

\* historical_df = pd.read_csv(self.historical_file), timestamps converted
read_csv(w) ==
    /\ writers[w].pc = "read"
    /\ writers' = [writers EXCEPT ![w].pc = "write",
                                  ![w].historical_df = ReadCsv(historical_file.rows)]
    /\ UNCHANGED <<historical_file, apart_vars>>

\* combined_df.to_csv(self.historical_file, index=False)
to_csv_combined(w) ==
    /\ writers[w].pc = "write"
    /\ \E combined_df \in Rewritten(writers[w].historical_df, writers[w].new_data) :
           historical_file' = [exists |-> TRUE, rows |-> WriteCsv(combined_df)]
    /\ writers' = [writers EXCEPT ![w].pc = "done"]
    /\ UNCHANGED apart_vars

\* new_data.to_csv(self.historical_file, index=False)
to_csv_new(w) ==
    /\ writers[w].pc = "create"
    /\ historical_file' = [exists |-> TRUE, rows |-> WriteCsv(writers[w].new_data)]
    /\ writers' = [writers EXCEPT ![w].pc = "done"]
    /\ UNCHANGED apart_vars

InitWriters ==
    /\ historical_file \in PriorLedgers
    /\ prior_file = historical_file
    /\ writers = [w \in Writers |-> [pc |-> "idle", new_data |-> <<>>, historical_df |-> <<>>]]
    /\ processed_file = NoFile
    /\ sample_file = NoFile
    /\ now = StartDay
    /\ ticks = 0
    /\ calls = 0
    /\ last_call = [op |-> "idle"]
    /\ DedupIdle
    /\ RecoIdle
    /\ NormIdle
    /\ PredIdle
    /\ TrendIdle
    /\ SchedIdle
    /\ PageIdle
    /\ MergeIdle

NextWriters ==
    \/ \E w \in Writers : \E batch \in WriterBatches : update_begin(w, batch)
    \/ \E w \in Writers : path_exists(w)
    \/ \E w \in Writers : read_csv(w)
    \/ \E w \in Writers : to_csv_combined(w)
    \/ \E w \in Writers : to_csv_new(w)

SpecWriters == InitWriters /\ [][NextWriters]_vars

----------------------------------------------------------------------------
(* Concurrent ledger updates: properties *)

\* C23 as stated: when both calls have returned, every in-window entry of the
\* prior ledger and of both batches is in the ledger, as often as it was
\* written.
C23_NoEntryLostByInterleaving ==
    (\A w \in Writers : writers[w].pc = "done") =>
        LET expected == ReadCsv(prior_file.rows) \o writers[1].new_data
                            \o writers[2].new_data
        IN  \A entry \in Range(expected) :
                InWindow(entry, now - RetentionDays) =>
                    Count(Ledger, entry) >= Count(expected, entry)

----------------------------------------------------------------------------
(* BaseScraper.get_page and AsyncBaseScraper.get_page: one request is one step *)

\* largest max_retries the calls are made with
MaxRetries == 3

\* what a request can meet: a status code, or an exception raised by the
\* request (for the asynchronous scraper also by reading the body)
Responses == {"200", "403", "429", "404", "500", "error"}

RateLimited(response) == response \in {"403", "429"}

\* faulty variant of retry_after_error: a request error is not counted
retry_after_error_uncounted(count) == count

\* except ...: retry_count += 1
retry_after_error(count) == count + 1

\* one pass of the loop: a request and what follows from its response
get_page_request(response) ==
    /\ fetched = "fetching"
    /\ retry_count < max_retries
    /\ Len(responses) <= max_retries
    /\ responses' = Append(responses, response)
    /\ IF response = "200"
       THEN fetched' = "BeautifulSoup" /\ retry_count' = retry_count
       ELSE IF RateLimited(response)
       THEN fetched' = fetched /\ retry_count' = retry_count + 1
       ELSE IF response = "error"
       THEN fetched' = fetched /\ retry_count' = retry_after_error(retry_count)
       ELSE fetched' = "None" /\ retry_count' = retry_count
    /\ UNCHANGED <<scraper, max_retries, dedup_vars, reco_vars, ledger_vars, norm_vars,
                   pred_vars, trend_vars, sched_vars, writer_vars, merge_vars>>

\* the loop ends: "Max retries reached", return None
get_page_give_up ==
    /\ fetched = "fetching"
    /\ retry_count >= max_retries
    /\ fetched' = "None"
    /\ UNCHANGED <<scraper, max_retries, retry_count, responses, dedup_vars, reco_vars,
                   ledger_vars, norm_vars, pred_vars, trend_vars, sched_vars, writer_vars,
                   merge_vars>>

InitGetPage ==
    /\ scraper \in {"BaseScraper", "AsyncBaseScraper"}
    /\ max_retries \in 0..MaxRetries
    /\ retry_count = 0
    /\ responses = <<>>
    /\ fetched = "fetching"
    /\ DedupIdle
    /\ RecoIdle
    /\ LedgerIdle
    /\ NormIdle
    /\ PredIdle
    /\ TrendIdle
    /\ SchedIdle
    /\ WritersIdle
    /\ MergeIdle

NextGetPage ==
    \/ \E response \in Responses : get_page_request(response)
    \/ get_page_give_up

\* the call goes on as long as it can: the request times out after 30
\* seconds and the sleeps end
SpecGetPage == InitGetPage /\ [][NextGetPage]_vars /\ WF_vars(NextGetPage)

----------------------------------------------------------------------------
(* get_page: properties *)

\* the requests that count as retries
Failures == {i \in 1..Len(responses) : RateLimited(responses[i]) \/ responses[i] = "error"}

GetPageContract ==
    /\ Len(responses) <= max_retries
    /\ Cardinality(Failures) <= max_retries
    /\ \A i \in 1..Len(responses) - 1 : i \in Failures
    /\ fetched = "BeautifulSoup" <=>
           (responses # <<>> /\ responses[Len(responses)] = "200")
    /\ (responses # <<>> /\ responses[Len(responses)] \in {"404", "500"}) =>
           fetched = "None"
    /\ fetched = "None" =>
           \/ Len(responses) = max_retries /\ Cardinality(Failures) = max_retries
           \/ responses # <<>> /\ responses[Len(responses)] \in {"404", "500"}

\* C25: get_page makes at most max_retries requests, every request but the
\* last one a 403, a 429 or a request error; it returns the parsed page
\* exactly when a request meets a 200, None at once on another status and
\* None after max_retries failures; and it always returns.
C25_GetPageTerminates == []GetPageContract /\ <>(fetched # "fetching")

\* a call that gave up after three failures of both kinds
C25_Witness ==
    /\ fetched = "None"
    /\ max_retries = MaxRetries
    /\ Cardinality(Failures) = MaxRetries
    /\ \E i, j \in Failures : responses[i] = "429" /\ responses[j] = "error"

----------------------------------------------------------------------------
(* Training: properties *)

\* the categories of the data the last training call trained on
TrainedCategories ==
    IF historical_data = None THEN {}
    ELSE {historical_data.rows[i].category :
             i \in {j \in 1..Len(historical_data.rows) :
                        "category" \in DOMAIN historical_data.rows[j]}}

\* C27: after train succeeds the predictor holds parameters for exactly the
\* categories of that call's training data: parameters an earlier call
\* learned for a category absent from the new data are gone.
C27_WeightsOfLastTrainingOnly ==
    (last_pred.op = "train" /\ last_pred.returned) =>
        DOMAIN model_weights = TrainedCategories

----------------------------------------------------------------------------
(* save_data: properties *)

\* C29: if save_data returns True the ledger was updated with the saved batch
\* (it holds every record of the batch that is inside the retention window);
\* if reading or writing the ledger fails, save_data returns False; for an
\* empty batch it returns False and leaves the processed file and the ledger
\* as they were.
C29_TrueMeansLedgerUpdated ==
    last_call.op = "save_data" =>
        /\ last_call.returned =>
               \A i \in 1..Len(last_call.new_data) :
                   InWindow(last_call.new_data[i], last_call.at - RetentionDays) =>
                       last_call.new_data[i] \in Range(Ledger)
        /\ last_call.failed = "historical" => ~last_call.returned
        /\ last_call.new_data = <<>> =>
               /\ ~last_call.returned
               /\ processed_file = last_call.processed_before
               /\ historical_file = last_call.before

----------------------------------------------------------------------------
(* DataProcessor.merge_data and DataProcessor.load_existing_data *)

\* most records of the processed file, and of the new batch
MaxMergeRows == 2

\* the records merged: one product on two sites, timestamps that are ISO
\* text of two days or do not parse
MergeRowPool ==
    {[product_name |-> "milk", source |-> source, timestamp |-> timestamp] :
        source \in {"jumia", "konga"},
        timestamp \in {IsoText(1), IsoText(2), JunkText}}

MergeTables == UNION {[1..n -> MergeRowPool] : n \in 0..MaxMergeRows}

\* the processed file: absent, empty, or populated
MergeFiles == {NoFile} \cup {[exists |-> TRUE, rows |-> rows] : rows \in MergeTables}

\* load_existing_data: the file's rows, an empty table when the file is
\* absent or cannot be read
load_existing_data == IF processed_file.exists THEN processed_file.rows ELSE <<>>

RECURSIVE RowsAt(_, _, _)
\* the rows of the table at the given positions, from position i on, in order
RowsAt(table, positions, i) ==
    IF i > Len(table) THEN <<>>
    ELSE (IF i \in positions THEN <<table[i]>> ELSE <<>>) \o RowsAt(table, positions, i + 1)

SameKey(a, b) == a.product_name = b.product_name /\ a.source = b.source

\* drop_duplicates(subset=['product_name', 'source'], keep='first')
drop_duplicates(table) ==
    LET kept == {i \in 1..Len(table) : \A j \in 1..(i - 1) : ~SameKey(table[i], table[j])}
    IN  RowsAt(table, kept, 1)

\* what merge_data can return
MergeOutcomes(new_data) ==
    IF new_data = <<>> THEN {load_existing_data}
    ELSE LET existing_data == load_existing_data
         IN  IF existing_data = <<>> THEN {new_data}
             ELSE LET merged == ReadCsv(existing_data \o new_data)
                  IN  {drop_duplicates(sorted) :
                          sorted \in NewestFirstFrom(merged, 1..Len(merged))}

merge_data(new_data) ==
    /\ merge_call.op = "none"
    /\ \E returned \in MergeOutcomes(new_data) :
           merge_call' = [op |-> "merge_data", new_data |-> new_data, returned |-> returned]
    /\ UNCHANGED <<dedup_vars, reco_vars, ledger_vars, norm_vars, pred_vars, trend_vars,
                   sched_vars, writer_vars, page_vars>>

InitMerge ==
    /\ processed_file \in MergeFiles
    /\ merge_call = [op |-> "none"]
    /\ historical_file = NoFile
    /\ sample_file = NoFile
    /\ now = 0
    /\ ticks = 0
    /\ calls = 0
    /\ last_call = [op |-> "idle"]
    /\ DedupIdle
    /\ RecoIdle
    /\ NormIdle
    /\ PredIdle
    /\ TrendIdle
    /\ SchedIdle
    /\ WritersIdle
    /\ PageIdle

NextMerge == \E new_data \in MergeTables : merge_data(new_data)

SpecMerge == InitMerge /\ [][NextMerge]_vars

----------------------------------------------------------------------------
(* merge_data: properties *)

MergedTable == merge_call.returned

\* the existing and the new records, timestamps read as dates
MergeInputs == ReadCsv(load_existing_data \o merge_call.new_data)

\* the returned table, timestamps read as dates (merge_data converts them
\* only on the path that concatenates)
MergedStamped ==
    IF load_existing_data # <<>> /\ merge_call.new_data # <<>> THEN MergedTable
    ELSE ReadCsv(MergedTable)

\* C26: for every state of the processed file (absent, empty, populated) and
\* every non-empty batch, the table merge_data returns holds at most one
\* record per (product_name, source) pair, and the record kept for a pair has
\* the most recent timestamp among the existing and the new records of the
\* pair (a timestamp that does not parse is older than any that does).
C26_OnePerPairMostRecent ==
    (merge_call.op = "merge_data" /\ merge_call.new_data # <<>>) =>
        /\ \A i, j \in 1..Len(MergedTable) :
               SameKey(MergedTable[i], MergedTable[j]) => i = j
        /\ \A i \in 1..Len(MergedStamped) : \A k \in 1..Len(MergeInputs) :
               SameKey(MergedStamped[i], MergeInputs[k]) =>
                   Precedes(MergedStamped[i], MergeInputs[k])

====
